---- MODULE Spec2Model ----
(***************************************************************************)
(* Task-API: the CRUD request handlers of the repository and the           *)
(* relational store they run their statements against.                     *)
(*                                                                         *)
(* Three programs share the store model:                                   *)
(*   PM   the project manager of project-manager-solution.md               *)
(*        (PATCH routes, assign endpoints, tasks.assignee_id SET NULL);    *)
(*   Mod  the modular server (src/modules/*, db/index.js with CASCADE on   *)
(*        every foreign key, PUT routes);                                  *)
(*   List the single-table task list at the top of index.js.               *)
(*                                                                         *)
(* One action is one SQL statement of a handler together with the          *)
(* synchronous JavaScript that follows it up to the next await or to the   *)
(* response.  A handler with several statements is suspended in `pending`  *)
(* between them, so statements of other requests interleave there.         *)
(***************************************************************************)
EXTENDS Integers, Sequences, FiniteSets, Bags, TLC

(***************************************************************************)
(* Values.  A text is a tuple of strings.  Texts that the code trims,      *)
(* measures or searches are written one character per element; the         *)
(* keywords null, undefined, true and false are one-element tuples.        *)
(* Integer columns (ids, references) use integer sentinels.                *)
(***************************************************************************)
NULL == <<"null">>
UNDEF == <<"undefined">>
TRUE_ == <<"true">>
FALSE_ == <<"false">>
NULLID == 0
UNDEFID == -1

IdFields == {"id", "project_id", "assignee_id", "assigned_to", "owner_id"}

\* const { f } = req.body
Field(body, f) ==
  IF f \in DOMAIN body THEN body[f]
  ELSE IF f \in IdFields THEN UNDEFID ELSE UNDEF

\* const { f = dflt } = req.body : the default replaces undefined only
FieldOr(body, f, dflt) == IF f \in DOMAIN body THEN body[f] ELSE dflt

\* !v for a text and for an id
Falsy(v) == v \in {UNDEF, NULL, <<>>, FALSE_}
FalsyId(v) == v \in {UNDEFID, NULLID}

\* v || null
OrNull(v) == IF Falsy(v) THEN NULL ELSE v

\* what the driver sends for a parameter: undefined goes as NULL
Param(v) == IF v = UNDEF THEN NULL ELSE v
ParamId(v) == IF v = UNDEFID THEN NULLID ELSE v

IsText(v) == v \notin {UNDEF, NULL, TRUE_, FALSE_}

RECURSIVE TrimStart(_)
TrimStart(s) == IF s # <<>> /\ Head(s) = " " THEN TrimStart(Tail(s)) ELSE s

RECURSIVE TrimEnd(_)
TrimEnd(s) ==
  IF s # <<>> /\ s[Len(s)] = " " THEN TrimEnd(SubSeq(s, 1, Len(s) - 1)) ELSE s

\* String.prototype.trim
trim(s) == TrimEnd(TrimStart(s))

\* String.prototype.includes, for a one-character needle
includes(s, c) == \E i \in 1..Len(s) : s[i] = c

(***************************************************************************)
(* Schemas: the CREATE TABLE statements.  cols, the integer columns, the   *)
(* columns with DEFAULT CURRENT_TIMESTAMP, the other defaults, NOT NULL,   *)
(* UNIQUE and REFERENCES ... ON DELETE.                                    *)
(***************************************************************************)
SchemaPM ==
  [assignees |->
     [cols |-> {"id", "name", "email", "role", "created_at", "updated_at"},
      ints |-> {"id"},
      stamps |-> {"created_at", "updated_at"},
      defaults |-> [role |-> <<"Developer">>],
      notnull |-> {"name", "email"},
      unique |-> {{"email"}},
      fks |-> {}],
   projects |->
     [cols |-> {"id", "name", "description", "status", "created_at",
                "updated_at"},
      ints |-> {"id"},
      stamps |-> {"created_at", "updated_at"},
      defaults |-> [status |-> <<"Active">>],
      notnull |-> {"name"},
      unique |-> {},
      fks |-> {}],
   tasks |->
     [cols |-> {"id", "title", "description", "status", "priority",
                "due_date", "project_id", "assignee_id", "created_at",
                "updated_at"},
      ints |-> {"id", "project_id", "assignee_id"},
      stamps |-> {"created_at", "updated_at"},
      defaults |-> [status |-> <<"Todo">>, priority |-> <<"Medium">>],
      notnull |-> {"title"},
      unique |-> {},
      fks |-> {[col |-> "project_id", ref |-> "projects", on |-> "CASCADE"],
               [col |-> "assignee_id", ref |-> "assignees",
                on |-> "SET NULL"]}],
   project_assignees |->
     [cols |-> {"id", "project_id", "assignee_id", "role_in_project",
                "assigned_at"},
      ints |-> {"id", "project_id", "assignee_id"},
      stamps |-> {"assigned_at"},
      defaults |-> [role_in_project |-> <<"Team Member">>],
      notnull |-> {},
      unique |-> {{"project_id", "assignee_id"}},
      fks |-> {[col |-> "project_id", ref |-> "projects", on |-> "CASCADE"],
               [col |-> "assignee_id", ref |-> "assignees",
                on |-> "CASCADE"]}]]

SchemaMod ==
  [assignees |->
     [cols |-> {"id", "name", "email", "role", "created_at", "updated_at"},
      ints |-> {"id"},
      stamps |-> {"created_at", "updated_at"},
      defaults |-> [role |-> <<"member">>],
      notnull |-> {"name", "email"},
      unique |-> {{"email"}},
      fks |-> {}],
   projects |->
     [cols |-> {"id", "title", "description", "status", "priority",
                "owner_id", "start_date", "end_date", "created_at",
                "updated_at"},
      ints |-> {"id", "owner_id"},
      stamps |-> {"created_at", "updated_at"},
      defaults |-> [status |-> <<"active">>, priority |-> <<"medium">>],
      notnull |-> {"title"},
      unique |-> {},
      fks |-> {[col |-> "owner_id", ref |-> "assignees", on |-> "CASCADE"]}],
   tasks |->
     [cols |-> {"id", "title", "description", "status", "priority",
                "project_id", "assigned_to", "due_date", "completed",
                "created_at", "updated_at"},
      ints |-> {"id", "project_id", "assigned_to"},
      stamps |-> {"created_at", "updated_at"},
      defaults |-> [status |-> <<"pending">>, priority |-> <<"medium">>,
                    completed |-> FALSE_],
      notnull |-> {"title"},
      unique |-> {},
      fks |-> {[col |-> "project_id", ref |-> "projects", on |-> "CASCADE"],
               [col |-> "assigned_to", ref |-> "assignees",
                on |-> "CASCADE"]}],
   project_assignees |->
     [cols |-> {"id", "project_id", "assignee_id", "role_in_project",
                "assigned_at"},
      ints |-> {"id", "project_id", "assignee_id"},
      stamps |-> {"assigned_at"},
      defaults |-> [role_in_project |-> <<"Team Member">>],
      notnull |-> {},
      unique |-> {{"project_id", "assignee_id"}},
      fks |-> {[col |-> "project_id", ref |-> "projects", on |-> "CASCADE"],
               [col |-> "assignee_id", ref |-> "assignees",
                on |-> "CASCADE"]}]]

SchemaList ==
  [assignees |-> [cols |-> {}, ints |-> {}, stamps |-> {},
                  defaults |-> <<>>, notnull |-> {}, unique |-> {},
                  fks |-> {}],
   projects |-> [cols |-> {}, ints |-> {}, stamps |-> {},
                 defaults |-> <<>>, notnull |-> {}, unique |-> {},
                 fks |-> {}],
   tasks |->
     [cols |-> {"id", "title", "description", "completed", "created_at",
                "updated_at"},
      ints |-> {"id"},
      stamps |-> {"created_at", "updated_at"},
      defaults |-> [completed |-> FALSE_],
      notnull |-> {"title"},
      unique |-> {},
      fks |-> {}],
   project_assignees |-> [cols |-> {}, ints |-> {}, stamps |-> {},
                          defaults |-> <<>>, notnull |-> {}, unique |-> {},
                          fks |-> {}]]

Tables == {"assignees", "projects", "tasks", "project_assignees"}

(***************************************************************************)
(* The store engine: INSERT, UPDATE and DELETE of one row with the         *)
(* constraint checks of the schema.  A result is [code, rows, db]: the     *)
(* SQLSTATE ("ok" when none), the RETURNING rows and the tables after.     *)
(***************************************************************************)
NullOf(sch, t, c) == IF c \in sch[t].ints THEN NULLID ELSE NULL

\* the row when a column default replaced the supplied value
NewRow_defaulted(sch, t, given, id, clk) ==
  [c \in sch[t].cols |->
     IF c = "id" THEN id
     ELSE IF c \in DOMAIN sch[t].defaults THEN sch[t].defaults[c]
     ELSE IF c \in DOMAIN given THEN given[c]
     ELSE IF c \in sch[t].stamps THEN clk
     ELSE NullOf(sch, t, c)]

\* the row an INSERT of the given columns builds
NewRow(sch, t, given, id, clk) ==
  [c \in sch[t].cols |->
     IF c = "id" THEN id
     ELSE IF c \in DOMAIN given THEN given[c]
     ELSE IF c \in DOMAIN sch[t].defaults THEN sch[t].defaults[c]
     ELSE IF c \in sch[t].stamps THEN clk
     ELSE NullOf(sch, t, c)]

NotNullOk(sch, t, row) ==
  \A c \in sch[t].notnull : row[c] # NullOf(sch, t, c)

\* a table without its UNIQUE constraints
UniqueOk_none(sch, t, rows, row) == TRUE

UniqueOk(sch, t, rows, row) ==
  \A u \in sch[t].unique :
     (\A c \in u : row[c] # NullOf(sch, t, c))
       => ~ \E r \in rows : r.id # row.id /\ \A c \in u : r[c] = row[c]

\* a table without its REFERENCES constraints
FkOk_none(sch, d, t, row) == TRUE

FkOk(sch, d, t, row) ==
  \A f \in sch[t].fks :
     row[f.col] = NULLID \/ \E p \in d[f.ref] : p.id = row[f.col]

Failed(code, d) == [code |-> code, rows |-> {}, db |-> d]

Checked(sch, d, t, row, after) ==
  IF ~ NotNullOk(sch, t, row) THEN Failed("23502", d)
  ELSE IF ~ UniqueOk(sch, t, d[t], row) THEN Failed("23505", d)
  ELSE IF ~ FkOk(sch, d, t, row) THEN Failed("23503", d)
  ELSE [code |-> "ok", rows |-> {row}, db |-> after]

\* INSERT INTO t (DOMAIN given) VALUES (given) RETURNING *
Insert(sch, d, t, given, id, clk) ==
  LET row == NewRow(sch, t, given, id, clk)
  IN  Checked(sch, d, t, row, [d EXCEPT ![t] = @ \cup {row}])

\* an UPDATE whose WHERE matches any row
Update_any(sch, d, t, id, sets) ==
  LET hit == d[t]
  IN  IF hit = {} THEN [code |-> "ok", rows |-> {}, db |-> d]
      ELSE LET old == CHOOSE r \in hit : TRUE
               row == [c \in sch[t].cols |->
                         IF c \in DOMAIN sets THEN sets[c] ELSE old[c]]
           IN  Checked(sch, d, t, row,
                       [d EXCEPT ![t] = (@ \ {old}) \cup {row}])

\* UPDATE t SET (sets) WHERE id = id RETURNING *
Update(sch, d, t, id, sets) ==
  LET hit == {r \in d[t] : r.id = id}
  IN  IF hit = {} THEN [code |-> "ok", rows |-> {}, db |-> d]
      ELSE LET old == CHOOSE r \in hit : TRUE
               row == [c \in sch[t].cols |->
                         IF c \in DOMAIN sets THEN sets[c] ELSE old[c]]
           IN  Checked(sch, d, t, row,
                       [d EXCEPT ![t] = (@ \ {old}) \cup {row}])

\* the foreign keys that reference table t: <<child table, key>>
Referencing(sch, t) ==
  {x \in UNION {{<<c, f>> : f \in sch[c].fks} : c \in Tables} : x[2].ref = t}

\* keys without an ON DELETE action
OnDelete_none(sch, d, ids, refs) == d

RECURSIVE DeleteRows(_, _, _, _)
RECURSIVE OnDelete(_, _, _, _)
\* apply ON DELETE of every key in refs for the removed parent ids
OnDelete(sch, d, ids, refs) ==
  IF refs = {} THEN d
  ELSE LET x == CHOOSE y \in refs : TRUE
           c == x[1]
           f == x[2]
           hit == {r \in d[c] : r[f.col] \in ids}
           d1 == IF f.on = "CASCADE"
                 THEN DeleteRows(sch, d, c, {r.id : r \in hit})
                 ELSE [d EXCEPT ![c] =
                         {IF r \in hit THEN [r EXCEPT ![f.col] = NULLID]
                          ELSE r : r \in @}]
       IN  OnDelete(sch, d1, ids, refs \ {x})

\* remove the rows ids of table t and what ON DELETE makes follow
DeleteRows(sch, d, t, ids) ==
  IF ids = {} THEN d
  ELSE OnDelete(sch, [d EXCEPT ![t] = {r \in @ : r.id \notin ids}], ids,
                Referencing(sch, t))

\* DELETE FROM t WHERE id = id RETURNING *
Delete(sch, d, t, id) ==
  LET hit == {r \in d[t] : r.id = id}
  IN  [code |-> "ok", rows |-> hit,
       db |-> DeleteRows(sch, d, t, {r.id : r \in hit})]

(***************************************************************************)
(* Bounds of the model.                                                    *)
(***************************************************************************)
\* ids the SERIAL column of each table hands out: 1..Max
MaxAssignees == 2
MaxProjects == 1
MaxTasks == 1
MaxAssignments == 2
\* readings of CURRENT_TIMESTAMP: 0..MaxClock
MaxClock == 1
\* handlers suspended between two statements at one time
MaxPending == 2
\* shutdown signals whose handlers wait for client.end() at one time
MaxSignals == 2

AssigneeIds == 1..MaxAssignees
ProjectIds == 1..MaxProjects
TaskIds == 1..MaxTasks

(***************************************************************************)
(* State.                                                                  *)
(***************************************************************************)
VARIABLES
  prog,     \* the program that serves the requests: "PM", "Mod", "List" or
            \* "Auth"; "crashed" or "exited" once the process is gone
  conn,     \* the connection of the pg client: "open", "ending" or "ended"
  db,       \* table name -> set of rows
  seq,      \* table name -> next value of the id sequence
  now,      \* CURRENT_TIMESTAMP
  pending,  \* bag of handlers suspended at an await
  resp      \* the response sent by the last step, NoResp when it sent none

vars == <<prog, conn, db, seq, now, pending, resp>>

NoBody == [f \in {} |-> NULL]

NoResp == [op |-> "none", status |-> 0, success |-> FALSE, id |-> NULLID,
           body |-> NoBody, rows |-> {}, q |-> 0, n |-> 0, msg |-> "",
           order |-> <<>>, code |-> "", error |-> FALSE]

\* res.status(status).json({ success, message, data, ... }) of handler op for
\* the request (id, body), after q statements; every handler sends
\* success: true with a 2xx status and success: false with any other
Reply(op, status, id, body, rows, q, n, msg) ==
  resp' = [op |-> op, status |-> status, success |-> status < 300, id |-> id,
           body |-> body, rows |-> rows, q |-> q, n |-> n, msg |-> msg,
           order |-> <<>>, code |-> "", error |-> FALSE]

\* the response of a catch block that received the store's error with
\* error.code = code: res.status(status).json({ success: false, message }),
\* with error: error.message in it where detail is TRUE
ReplyCaught(op, status, id, body, q, msg, code, detail) ==
  resp' = [op |-> op, status |-> status, success |-> FALSE, id |-> id,
           body |-> body, rows |-> {}, q |-> q, n |-> 0, msg |-> msg,
           order |-> <<>>, code |-> code, error |-> detail]

\* res.status(200).json({ success: true, data: result.rows }) of a handler
\* whose statement returned rows in the order of ids order
ReplyList(op, id, rows, order) ==
  resp' = [op |-> op, status |-> 200, success |-> TRUE, id |-> id,
           body |-> NoBody, rows |-> rows, q |-> 1, n |-> 0, msg |-> "",
           order |-> order, code |-> "", error |-> FALSE]

Silent == resp' = NoResp

\* a handler waiting for the result of its next statement
Cont(op, id, body, pc, n) ==
  [op |-> op, id |-> id, body |-> body, pc |-> pc, n |-> n]

Suspend(c) ==
  /\ BagCardinality(pending) < MaxPending
  /\ pending' = pending (+) SetToBag({c})

Resume(c) == pending' = pending (-) SetToBag({c})

Waiting(op, pc) == {c \in BagToSet(pending) : c.op = op /\ c.pc = pc}

Exists(t, id) == \E r \in db[t] : r.id = id

NextVal(t) == seq' = [seq EXCEPT ![t] = @ + 1]

(***************************************************************************)
(* Start of a server.  db/index.js (Mod) drops and creates the four tables *)
(* and calls insertSampleData; index.js (List) creates the tasks table if  *)
(* it is missing and calls its insertSampleData.                           *)
(***************************************************************************)
\* INSERT INTO assignees (name, email, role) VALUES ...
SampleAssignees ==
  <<[name |-> <<"John Doe">>, email |-> <<"john@example.com">>,
     role |-> <<"admin">>],
    [name |-> <<"Jane Smith">>, email |-> <<"jane@example.com">>,
     role |-> <<"manager">>],
    [name |-> <<"Bob Johnson">>, email |-> <<"bob@example.com">>,
     role |-> <<"member">>]>>

\* INSERT INTO projects (title, description, status, priority, owner_id,
\* start_date, end_date) VALUES ...
SampleProjects ==
  <<[title |-> <<"Website Redesign">>,
     description |-> <<"Complete overhaul of company website">>,
     status |-> <<"active">>, priority |-> <<"high">>, owner_id |-> 1,
     start_date |-> <<"2024-01-01">>, end_date |-> <<"2024-03-31">>],
    [title |-> <<"Mobile App Development">>,
     description |-> <<"Create new mobile application">>,
     status |-> <<"active">>, priority |-> <<"medium">>, owner_id |-> 2,
     start_date |-> <<"2024-02-01">>, end_date |-> <<"2024-06-30">>],
    [title |-> <<"Database Migration">>,
     description |-> <<"Migrate from MySQL to PostgreSQL">>,
     status |-> <<"planning">>, priority |-> <<"high">>, owner_id |-> 1,
     start_date |-> <<"2024-03-01">>, end_date |-> <<"2024-04-30">>]>>

\* INSERT INTO tasks (title, description, status, priority, project_id,
\* assigned_to, due_date, completed) VALUES ...
SampleTasks ==
  <<[title |-> <<"Design Homepage">>,
     description |-> <<"Create new homepage design">>,
     status |-> <<"in_progress">>, priority |-> <<"high">>, project_id |-> 1,
     assigned_to |-> 2, due_date |-> <<"2024-01-15">>, completed |-> FALSE_],
    [title |-> <<"Setup Database">>,
     description |-> <<"Configure PostgreSQL database">>,
     status |-> <<"completed">>, priority |-> <<"high">>, project_id |-> 1,
     assigned_to |-> 1, due_date |-> <<"2024-01-10">>, completed |-> TRUE_],
    [title |-> <<"Create API Endpoints">>,
     description |-> <<"Build REST API for mobile app">>,
     status |-> <<"pending">>, priority |-> <<"medium">>, project_id |-> 2,
     assigned_to |-> 3, due_date |-> <<"2024-02-20">>, completed |-> FALSE_],
    [title |-> <<"User Authentication">>,
     description |-> <<"Implement login/logout functionality">>,
     status |-> <<"in_progress">>, priority |-> <<"high">>, project_id |-> 2,
     assigned_to |-> 2, due_date |-> <<"2024-02-25">>, completed |-> FALSE_]>>

\* INSERT INTO project_assignees (project_id, assignee_id, role_in_project)
SampleAssignments ==
  <<[project_id |-> 1, assignee_id |-> 1,
     role_in_project |-> <<"Project Lead">>],
    [project_id |-> 1, assignee_id |-> 2,
     role_in_project |-> <<"Frontend Developer">>],
    [project_id |-> 2, assignee_id |-> 2,
     role_in_project |-> <<"Backend Developer">>],
    [project_id |-> 2, assignee_id |-> 3,
     role_in_project |-> <<"Mobile Developer">>],
    [project_id |-> 3, assignee_id |-> 1,
     role_in_project |-> <<"Database Administrator">>],
    [project_id |-> 3, assignee_id |-> 3,
     role_in_project |-> <<"Developer">>]>>

\* the sample rows of db/index.js by table
Sample ==
  [assignees |-> SampleAssignees, projects |-> SampleProjects,
   tasks |-> SampleTasks, project_assignees |-> SampleAssignments]

RECURSIVE InsertRows(_, _, _, _, _, _)
\* one INSERT statement with several VALUES rows, ids from the sequence
InsertRows(sch, d, t, givens, id, clk) ==
  IF givens = <<>> THEN d
  ELSE InsertRows(sch, Insert(sch, d, t, Head(givens), id, clk).db, t,
                  Tail(givens), id + 1, clk)

\* index.js (List): INSERT INTO tasks (title, description, completed) VALUES
SampleTasksList ==
  <<[title |-> <<"Learn Node.js">>,
     description |-> <<"Complete Node.js tutorial">>, completed |-> FALSE_],
    [title |-> <<"Build REST API">>,
     description |-> <<"Create CRUD operations">>, completed |-> TRUE_],
    [title |-> <<"Learn PostgreSQL">>,
     description |-> <<"Study database fundamentals">>,
     completed |-> FALSE_]>>

\* insertSampleData of program p on the tables d, which it found empty
insertSampleData(p, d, clk) ==
  IF p = "List"
  THEN InsertRows(SchemaList, d, "tasks", SampleTasksList, 1, clk)
  ELSE LET a == InsertRows(SchemaMod, d, "assignees", SampleAssignees, 1,
                           clk)
           pr == InsertRows(SchemaMod, a, "projects", SampleProjects, 1, clk)
           t == InsertRows(SchemaMod, pr, "tasks", SampleTasks, 1, clk)
       IN  InsertRows(SchemaMod, t, "project_assignees", SampleAssignments,
                      1, clk)

\* the first value each sequence hands to a request of program p
FirstVal(p) ==
  [t \in Tables |->
     IF p \in {"Mod", "Auth"} THEN Len(Sample[t]) + 1
     ELSE IF p = "List" /\ t = "tasks" THEN Len(SampleTasksList) + 1
     ELSE 1]

\* The server p has started.  Mod and List hold their sample rows; PM is
\* taken with its tables empty, which is where the deletes of its sample
\* rows lead.  Auth is the server with the auth routes: its import of
\* db/index.js has run, the rest of the module has not.
Start(p) ==
  /\ prog = p
  /\ conn = "open"
  /\ db = IF p = "PM" THEN [t \in Tables |-> {}]
          ELSE insertSampleData(p, [t \in Tables |-> {}], 0)
  /\ seq = FirstVal(p)
  /\ now = 0
  /\ pending = EmptyBag
  /\ resp = NoResp

\* the ids a request of Mod may name: the sample rows and the rows created
ModAssigneeIds == 1 .. (Len(SampleAssignees) + MaxAssignees)
ModProjectIds == 1 .. (Len(SampleProjects) + MaxProjects)
ModTaskIds == 1 .. (Len(SampleTasks) + MaxTasks)

\* the ids a request of List may name
ListTaskIds == 1 .. (Len(SampleTasksList) + MaxTasks)

\* a request is served by the program that was started, its statement by
\* the open connection
PM == prog = "PM" /\ conn = "open" /\ UNCHANGED <<prog, conn>>
Mod == prog = "Mod" /\ conn = "open" /\ UNCHANGED <<prog, conn>>
List == prog = "List" /\ conn = "open" /\ UNCHANGED <<prog, conn>>

\* time passes
Tick ==
  /\ UNCHANGED <<prog, conn>>
  /\ now < MaxClock
  /\ now' = now + 1
  /\ Silent
  /\ UNCHANGED <<db, seq, pending>>

(***************************************************************************)
(* Request inputs.                                                         *)
(***************************************************************************)
AB == <<"a", "b">>
SpAB == <<" ", "a", "b">>
CD == <<"c", "d">>
A1 == <<"a">>
MailA == <<"a", "@">>
MailASp == <<"a", "@", " ">>
MailB == <<"b", "@">>

Ok == ""

(***************************************************************************)
(* PM: routes/assignees.js                                                 *)
(***************************************************************************)
validateAssignee(name, email) ==
  IF Falsy(name) \/ Len(trim(name)) < 2
  THEN "Name is required and must be at least 2 characters"
  ELSE IF Falsy(email) \/ ~ includes(email, "@")
  THEN "Valid email is required"
  ELSE Ok

\* POST /api/assignees
PostAssignee(body) ==
  LET name == Field(body, "name")
      email == Field(body, "email")
      role == FieldOr(body, "role", <<"Developer">>)
      validationError == validateAssignee(name, email)
  IN  /\ UNCHANGED <<now, pending>>
      /\ IF validationError # Ok
         THEN /\ Reply("PostAssignee", 400, NULLID, body, {}, 0, 0,
                       validationError)
              /\ UNCHANGED <<db, seq>>
         ELSE /\ seq.assignees <= MaxAssignees
              /\ LET r == Insert(SchemaPM, db, "assignees",
                                 [name |-> trim(name), email |-> trim(email),
                                  role |-> role],
                                 seq.assignees, now)
                 IN  /\ db' = r.db
                     /\ NextVal("assignees")
                     /\ IF r.code = "ok"
                        THEN Reply("PostAssignee", 201, NULLID, body, r.rows,
                                   1, 0, "Assignee created successfully")
                        ELSE IF r.code = "23505"
                        THEN ReplyCaught("PostAssignee", 409, NULLID, body, 1,
                                         "Email already exists", r.code, FALSE)
                        ELSE ReplyCaught("PostAssignee", 500, NULLID, body, 1,
                                         "Error creating assignee",
                                         r.code, FALSE)

\* GET /api/assignees/:id
GetAssignee(id) ==
  LET rows == {r \in db.assignees : r.id = id}
  IN  /\ IF rows = {}
         THEN Reply("GetAssignee", 404, id, NoBody, {}, 1, 0,
                    "Assignee not found")
         ELSE Reply("GetAssignee", 200, id, NoBody, rows, 1, 0, Ok)
      /\ UNCHANGED <<db, seq, now, pending>>

\* a PATCH that writes every field, NULL where the body supplies none
PatchSets_all(body, fields, trimmed, clk) ==
  [c \in fields \cup {"updated_at"} |->
     IF c = "updated_at" THEN clk
     ELSE IF c \notin DOMAIN body
     THEN (IF c \in IdFields THEN NULLID ELSE NULL)
     ELSE IF c \in trimmed THEN trim(body[c])
     ELSE body[c]]

\* the SET list a PATCH builds from the supplied fields
PatchSets(body, fields, trimmed, clk) ==
  [c \in (DOMAIN body \cap fields) \cup {"updated_at"} |->
     IF c = "updated_at" THEN clk
     ELSE IF c \in trimmed THEN trim(body[c])
     ELSE body[c]]

\* a PATCH that skips the test of updateFields.length
NoFields_never(body, fields) == FALSE

\* updateFields.length === 0: body supplies none of the fields of a PATCH
NoFields(body, fields) == DOMAIN body \cap fields = {}

\* PATCH /api/assignees/:id
PatchAssignee(id, body) ==
  LET name == Field(body, "name")
      email == Field(body, "email")
      fields == {"name", "email", "role"}
  IN  /\ UNCHANGED <<seq, now, pending>>
      /\ IF (name # UNDEF /\ ~ IsText(name))
            \/ (email # UNDEF /\ ~ IsText(email))
         THEN /\ Reply("PatchAssignee", 500, id, body, {}, 0, 0,
                       "Error updating assignee")
              /\ UNCHANGED db
         ELSE IF name # UNDEF /\ Len(trim(name)) < 2
         THEN /\ Reply("PatchAssignee", 400, id, body, {}, 0, 0,
                       "Name must be at least 2 characters")
              /\ UNCHANGED db
         ELSE IF email # UNDEF /\ ~ includes(email, "@")
         THEN /\ Reply("PatchAssignee", 400, id, body, {}, 0, 0,
                       "Valid email is required")
              /\ UNCHANGED db
         ELSE IF NoFields(body, fields)
         THEN /\ Reply("PatchAssignee", 400, id, body, {}, 0, 0,
                       "No fields to update")
              /\ UNCHANGED db
         ELSE LET r == Update(SchemaPM, db, "assignees", id,
                              PatchSets(body, fields, {"name", "email"}, now))
              IN  /\ db' = r.db
                  /\ IF r.code = "23505"
                     THEN ReplyCaught("PatchAssignee", 409, id, body, 1,
                                      "Email already exists", r.code, FALSE)
                     ELSE IF r.code # "ok"
                     THEN ReplyCaught("PatchAssignee", 500, id, body, 1,
                                      "Error updating assignee", r.code, FALSE)
                     ELSE IF r.rows = {}
                     THEN Reply("PatchAssignee", 404, id, body, {}, 1, 0,
                                "Assignee not found")
                     ELSE Reply("PatchAssignee", 200, id, body, r.rows, 1, 0,
                                "Assignee updated successfully")

\* DELETE /api/assignees/:id, first statement: SELECT COUNT(*) FROM tasks
DeleteAssignee_count(id) ==
  LET affectedTasks == Cardinality({t \in db.tasks : t.assignee_id = id})
  IN  /\ Suspend(Cont("DeleteAssignee", id, NoBody, "delete", affectedTasks))
      /\ Silent
      /\ UNCHANGED <<db, seq, now>>

\* DELETE /api/assignees/:id, second statement: DELETE FROM assignees
DeleteAssignee_delete(c) ==
  LET r == Delete(SchemaPM, db, "assignees", c.id)
  IN  /\ Resume(c)
      /\ db' = r.db
      /\ IF r.rows = {}
         THEN Reply("DeleteAssignee", 404, c.id, NoBody, {}, 2, 0,
                    "Assignee not found")
         ELSE Reply("DeleteAssignee", 200, c.id, NoBody, r.rows, 2, c.n,
                    "Assignee deleted successfully")
      /\ UNCHANGED <<seq, now>>
(***************************************************************************)
(* PM: routes/projects.js                                                  *)
(***************************************************************************)
validateProject(name) ==
  IF Falsy(name) \/ Len(trim(name)) < 2
  THEN "Name is required and must be at least 2 characters"
  ELSE Ok

\* POST /api/projects
PostProject(body) ==
  LET name == Field(body, "name")
      description == Field(body, "description")
      status == FieldOr(body, "status", <<"Active">>)
      validationError == validateProject(name)
  IN  /\ UNCHANGED <<now, pending>>
      /\ IF validationError # Ok
         THEN /\ Reply("PostProject", 400, NULLID, body, {}, 0, 0,
                       validationError)
              /\ UNCHANGED <<db, seq>>
         ELSE /\ seq.projects <= MaxProjects
              /\ LET r == Insert(SchemaPM, db, "projects",
                                 [name |-> trim(name),
                                  description |-> OrNull(description),
                                  status |-> status],
                                 seq.projects, now)
                 IN  /\ db' = r.db
                     /\ NextVal("projects")
                     /\ IF r.code = "ok"
                        THEN Reply("PostProject", 201, NULLID, body, r.rows,
                                   1, 0, "Project created successfully")
                        ELSE ReplyCaught("PostProject", 500, NULLID, body, 1,
                                         "Error creating project",
                                         r.code, FALSE)

\* SELECT p.*, COUNT(t.id) as task_count ... GROUP BY p.id
WithTaskCount(d, p) ==
  p @@ [task_count |-> Cardinality({t \in d.tasks : t.project_id = p.id})]

\* GET /api/projects/:id
GetProject(id) ==
  LET rows == {WithTaskCount(db, p) : p \in {r \in db.projects : r.id = id}}
  IN  /\ IF rows = {}
         THEN Reply("GetProject", 404, id, NoBody, {}, 1, 0,
                    "Project not found")
         ELSE Reply("GetProject", 200, id, NoBody, rows, 1, 0, Ok)
      /\ UNCHANGED <<db, seq, now, pending>>

\* PATCH /api/projects/:id
PatchProject(id, body) ==
  LET name == Field(body, "name")
      fields == {"name", "description", "status"}
  IN  /\ UNCHANGED <<seq, now, pending>>
      /\ IF name # UNDEF /\ ~ IsText(name)
         THEN /\ Reply("PatchProject", 500, id, body, {}, 0, 0,
                       "Error updating project")
              /\ UNCHANGED db
         ELSE IF name # UNDEF /\ Len(trim(name)) < 2
         THEN /\ Reply("PatchProject", 400, id, body, {}, 0, 0,
                       "Name must be at least 2 characters")
              /\ UNCHANGED db
         ELSE IF NoFields(body, fields)
         THEN /\ Reply("PatchProject", 400, id, body, {}, 0, 0,
                       "No fields to update")
              /\ UNCHANGED db
         ELSE LET r == Update(SchemaPM, db, "projects", id,
                              PatchSets(body, fields, {"name"}, now))
              IN  /\ db' = r.db
                  /\ IF r.code # "ok"
                     THEN ReplyCaught("PatchProject", 500, id, body, 1,
                                      "Error updating project", r.code, FALSE)
                     ELSE IF r.rows = {}
                     THEN Reply("PatchProject", 404, id, body, {}, 1, 0,
                                "Project not found")
                     ELSE Reply("PatchProject", 200, id, body, r.rows, 1, 0,
                                "Project updated successfully")

\* DELETE /api/projects/:id, first statement: SELECT COUNT(*) FROM tasks
DeleteProject_count(id) ==
  LET taskCount == Cardinality({t \in db.tasks : t.project_id = id})
  IN  /\ Suspend(Cont("DeleteProject", id, NoBody, "delete", taskCount))
      /\ Silent
      /\ UNCHANGED <<db, seq, now>>

\* DELETE /api/projects/:id, second statement: DELETE FROM projects
DeleteProject_delete(c) ==
  LET r == Delete(SchemaPM, db, "projects", c.id)
  IN  /\ Resume(c)
      /\ db' = r.db
      /\ IF r.rows = {}
         THEN Reply("DeleteProject", 404, c.id, NoBody, {}, 2, 0,
                    "Project not found")
         ELSE Reply("DeleteProject", 200, c.id, NoBody, r.rows, 2, c.n,
                    "Project deleted successfully")
      /\ UNCHANGED <<seq, now>>

\* t.*, a.name as assignee_name, a.email as assignee_email
\* ... LEFT JOIN assignees a ON t.assignee_id = a.id
WithAssignee(d, t) ==
  LET a == {x \in d.assignees : x.id = t.assignee_id}
  IN  t @@ [assignee_name |->
              IF a = {} THEN NULL ELSE (CHOOSE x \in a : TRUE).name,
            assignee_email |->
              IF a = {} THEN NULL ELSE (CHOOSE x \in a : TRUE).email]

\* GET /api/projects/:id/tasks, first statement: SELECT name FROM projects
GetProjectTasks_project(id) ==
  /\ UNCHANGED <<db, seq, now>>
  /\ IF ~ Exists("projects", id)
     THEN /\ Reply("GetProjectTasks", 404, id, NoBody, {}, 1, 0,
                   "Project not found")
          /\ UNCHANGED pending
     ELSE /\ Suspend(Cont("GetProjectTasks", id, NoBody, "select", 0))
          /\ Silent

\* GET /api/projects/:id/tasks, second statement: SELECT t.* ... FROM tasks
GetProjectTasks_select(c) ==
  /\ Resume(c)
  /\ Reply("GetProjectTasks", 200, c.id, NoBody,
           {WithAssignee(db, t) : t \in {r \in db.tasks : r.project_id = c.id}},
           2, 0, Ok)
  /\ UNCHANGED <<db, seq, now>>
(***************************************************************************)
(* PM: routes/tasks.js                                                     *)
(***************************************************************************)
\* a validation that accepts every input
validateTask_none(title, project_id, assignee_id) == Ok

validateTask(title, project_id, assignee_id) ==
  IF Falsy(title) \/ Len(trim(title)) < 2
  THEN "Title is required and must be at least 2 characters"
  ELSE IF FalsyId(project_id) THEN "Project ID is required"
  ELSE IF FalsyId(assignee_id) THEN "Assignee ID is required"
  ELSE Ok

\* move a suspended handler to its next statement
Advance(c, pc) ==
  pending' = (pending (-) SetToBag({c}))
               (+) SetToBag({[c EXCEPT !.pc = pc, !.n = @ + 1]})

\* POST /api/tasks, up to the first statement: SELECT id FROM projects
PostTask_project(body) ==
  LET title == Field(body, "title")
      project_id == Field(body, "project_id")
      assignee_id == Field(body, "assignee_id")
      validationError == validateTask(title, project_id, assignee_id)
  IN  /\ UNCHANGED <<db, seq, now>>
      /\ IF validationError # Ok
         THEN /\ Reply("PostTask", 400, NULLID, body, {}, 0, 0,
                       validationError)
              /\ UNCHANGED pending
         ELSE IF ~ Exists("projects", project_id)
         THEN /\ Reply("PostTask", 400, NULLID, body, {}, 1, 0,
                       "Project not found")
              /\ UNCHANGED pending
         ELSE /\ Suspend(Cont("PostTask", NULLID, body, "assignee", 1))
              /\ Silent

\* POST /api/tasks, second statement: SELECT id FROM assignees
PostTask_assignee(c) ==
  /\ UNCHANGED <<db, seq, now>>
  /\ IF ~ Exists("assignees", c.body.assignee_id)
     THEN /\ Reply("PostTask", 400, NULLID, c.body, {}, 2, 0,
                   "Assignee not found")
          /\ Resume(c)
     ELSE /\ Advance(c, "insert")
          /\ Silent

\* POST /api/tasks, third statement: INSERT INTO tasks
PostTask_insert(c) ==
  LET body == c.body
      r == Insert(SchemaPM, db, "tasks",
                  [title |-> trim(body.title),
                   description |-> OrNull(Field(body, "description")),
                   status |-> FieldOr(body, "status", <<"Todo">>),
                   priority |-> FieldOr(body, "priority", <<"Medium">>),
                   due_date |-> OrNull(Field(body, "due_date")),
                   project_id |-> body.project_id,
                   assignee_id |-> body.assignee_id],
                  seq.tasks, now)
  IN  /\ seq.tasks <= MaxTasks
      /\ Resume(c)
      /\ db' = r.db
      /\ NextVal("tasks")
      /\ now' = now
      /\ IF r.code = "ok"
         THEN Reply("PostTask", 201, NULLID, body, r.rows, 3, 0,
                    "Task created successfully")
         ELSE IF r.code = "23503"
         THEN ReplyCaught("PostTask", 400, NULLID, body, 3,
                          "Invalid project_id or assignee_id", r.code, FALSE)
         ELSE ReplyCaught("PostTask", 500, NULLID, body, 3,
                          "Error creating task", r.code, FALSE)

\* t.*, p.name as project_name, a.name, a.email
\* FROM tasks t JOIN projects p ... LEFT JOIN assignees a ...
JoinTasks(d, ts) ==
  {WithAssignee(d, t) @@ [project_name |-> p.name] :
     <<t, p>> \in {x \in ts \X d.projects : x[1].project_id = x[2].id}}

\* GET /api/tasks/:id
GetTask(id) ==
  LET rows == JoinTasks(db, {t \in db.tasks : t.id = id})
  IN  /\ IF rows = {}
         THEN Reply("GetTask", 404, id, NoBody, {}, 1, 0, "Task not found")
         ELSE Reply("GetTask", 200, id, NoBody, rows, 1, 0, Ok)
      /\ UNCHANGED <<db, seq, now, pending>>

TaskFields ==
  {"title", "description", "status", "priority", "due_date", "project_id",
   "assignee_id"}

NeedsProject(body) == "project_id" \in DOMAIN body

NeedsAssignee(body) ==
  "assignee_id" \in DOMAIN body /\ body.assignee_id # NULLID

\* the synchronous start of PATCH /api/tasks/:id: the title check
TitleFault(body) ==
  LET title == Field(body, "title")
  IN  IF title # UNDEF /\ ~ IsText(title) THEN 500
      ELSE IF title # UNDEF /\ Len(trim(title)) < 2 THEN 400
      ELSE 0

\* PATCH /api/tasks/:id answered before any statement
PatchTask_reject(id, body) ==
  /\ UNCHANGED <<db, seq, now, pending>>
  /\ IF TitleFault(body) = 500
     THEN Reply("PatchTask", 500, id, body, {}, 0, 0, "Error updating task")
     ELSE IF TitleFault(body) = 400
     THEN Reply("PatchTask", 400, id, body, {}, 0, 0,
                "Title must be at least 2 characters")
     ELSE /\ NoFields(body, TaskFields)
          /\ Reply("PatchTask", 400, id, body, {}, 0, 0,
                   "No fields to update")

\* PATCH /api/tasks/:id, SELECT id FROM projects (project_id supplied)
PatchTask_project(id, body) ==
  /\ TitleFault(body) = 0
  /\ NeedsProject(body)
  /\ UNCHANGED <<db, seq, now>>
  /\ IF ~ Exists("projects", body.project_id)
     THEN /\ Reply("PatchTask", 400, id, body, {}, 1, 0, "Project not found")
          /\ UNCHANGED pending
     ELSE /\ Suspend(Cont("PatchTask", id, body,
                          IF NeedsAssignee(body) THEN "assignee"
                          ELSE "update", 1))
          /\ Silent

\* the assignee check of PATCH with q statements done and rest suspended
PatchTaskAssignee(id, body, q, rest) ==
  /\ UNCHANGED <<db, seq, now>>
  /\ IF ~ Exists("assignees", body.assignee_id)
     THEN /\ Reply("PatchTask", 400, id, body, {}, q + 1, 0,
                   "Assignee not found")
          /\ pending' = rest
     ELSE /\ BagCardinality(rest) < MaxPending
          /\ pending' = rest (+) SetToBag({Cont("PatchTask", id, body,
                                                "update", q + 1)})
          /\ Silent

\* PATCH /api/tasks/:id, SELECT id FROM assignees as the first statement
PatchTask_assignee(id, body) ==
  /\ TitleFault(body) = 0
  /\ ~ NeedsProject(body)
  /\ NeedsAssignee(body)
  /\ PatchTaskAssignee(id, body, 0, pending)

\* PATCH /api/tasks/:id, SELECT id FROM assignees after the project check
PatchTask_assignee2(c) ==
  PatchTaskAssignee(c.id, c.body, c.n, pending (-) SetToBag({c}))

\* a PATCH that sends the plain fields and the references in two UPDATEs:
\* the first one stays when the store refuses the second
PatchTaskUpdate_partial(id, body, q, rest) ==
  LET sets == PatchSets(body, TaskFields, {"title"}, now)
      r == Update(SchemaPM, db, "tasks", id, sets)
      plain == [c \in DOMAIN sets \ {"project_id", "assignee_id"} |->
                  sets[c]]
  IN  /\ pending' = rest
      /\ db' = IF r.code = "23503"
               THEN Update(SchemaPM, db, "tasks", id, plain).db
               ELSE r.db
      /\ UNCHANGED <<seq, now>>
      /\ IF r.code = "23503"
         THEN ReplyCaught("PatchTask", 400, id, body, q + 1,
                          "Invalid project_id or assignee_id", r.code, FALSE)
         ELSE IF r.code # "ok"
         THEN ReplyCaught("PatchTask", 500, id, body, q + 1,
                          "Error updating task", r.code, FALSE)
         ELSE IF r.rows = {}
         THEN Reply("PatchTask", 404, id, body, {}, q + 1, 0,
                    "Task not found")
         ELSE Reply("PatchTask", 200, id, body, r.rows, q + 1, 0,
                    "Task updated successfully")

\* the UPDATE of PATCH with q statements done and rest suspended
PatchTaskUpdate(id, body, q, rest) ==
  LET r == Update(SchemaPM, db, "tasks", id,
                  PatchSets(body, TaskFields, {"title"}, now))
  IN  /\ pending' = rest
      /\ db' = r.db
      /\ UNCHANGED <<seq, now>>
      /\ IF r.code = "23503"
         THEN ReplyCaught("PatchTask", 400, id, body, q + 1,
                          "Invalid project_id or assignee_id", r.code, FALSE)
         ELSE IF r.code # "ok"
         THEN ReplyCaught("PatchTask", 500, id, body, q + 1,
                          "Error updating task", r.code, FALSE)
         ELSE IF r.rows = {}
         THEN Reply("PatchTask", 404, id, body, {}, q + 1, 0,
                    "Task not found")
         ELSE Reply("PatchTask", 200, id, body, r.rows, q + 1, 0,
                    "Task updated successfully")

\* PATCH /api/tasks/:id, UPDATE tasks as the first statement
PatchTask_update(id, body) ==
  /\ TitleFault(body) = 0
  /\ ~ NeedsProject(body)
  /\ ~ NeedsAssignee(body)
  /\ ~ NoFields(body, TaskFields)
  /\ PatchTaskUpdate(id, body, 0, pending)

\* PATCH /api/tasks/:id, UPDATE tasks after the checks
PatchTask_update2(c) ==
  PatchTaskUpdate(c.id, c.body, c.n, pending (-) SetToBag({c}))

\* DELETE /api/tasks/:id
DeleteTask(id) ==
  LET r == Delete(SchemaPM, db, "tasks", id)
  IN  /\ db' = r.db
      /\ IF r.rows = {}
         THEN Reply("DeleteTask", 404, id, NoBody, {}, 1, 0, "Task not found")
         ELSE Reply("DeleteTask", 200, id, NoBody, r.rows, 1, 0,
                    "Task deleted successfully")
      /\ UNCHANGED <<seq, now, pending>>
(***************************************************************************)
(* PM: the assign and unassign endpoints of both routers                   *)
(***************************************************************************)
\* INSERT INTO project_assignees (project_id, assignee_id, role_in_project)
InsertAssignment(d, project_id, assignee_id, role_in_project, id, clk) ==
  Insert(SchemaPM, d, "project_assignees",
         [project_id |-> project_id, assignee_id |-> assignee_id,
          role_in_project |-> role_in_project], id, clk)

\* the same without the translation of 23505
AssignInsert_untranslated(c, project_id, assignee_id) ==
  LET r == InsertAssignment(db, project_id, assignee_id,
                            FieldOr(c.body, "role_in_project",
                                    <<"Team Member">>),
                            seq.project_assignees, now)
  IN  /\ seq.project_assignees <= MaxAssignments
      /\ Resume(c)
      /\ db' = r.db
      /\ NextVal("project_assignees")
      /\ now' = now
      /\ IF r.code = "ok"
         THEN Reply(c.op, 201, c.id, c.body, r.rows, 3, 0,
                    "Assignee assigned to project successfully")
         ELSE ReplyCaught(c.op, 500, c.id, c.body, 3,
                          "Error assigning assignee to project", r.code, FALSE)

\* the INSERT and the response shared by both assign endpoints
AssignInsert(c, project_id, assignee_id) ==
  LET r == InsertAssignment(db, project_id, assignee_id,
                            FieldOr(c.body, "role_in_project",
                                    <<"Team Member">>),
                            seq.project_assignees, now)
  IN  /\ seq.project_assignees <= MaxAssignments
      /\ Resume(c)
      /\ db' = r.db
      /\ NextVal("project_assignees")
      /\ now' = now
      /\ IF r.code = "ok"
         THEN Reply(c.op, 201, c.id, c.body, r.rows, 3, 0,
                    "Assignee assigned to project successfully")
         ELSE IF r.code = "23505"
         THEN ReplyCaught(c.op, 409, c.id, c.body, 3,
                          "Assignee is already assigned to this project",
                          r.code, FALSE)
         ELSE ReplyCaught(c.op, 500, c.id, c.body, 3,
                          "Error assigning assignee to project", r.code, FALSE)

\* POST /api/projects/:id/assignees, up to SELECT id FROM projects
PostProjectAssignee_project(id, body) ==
  /\ UNCHANGED <<db, seq, now>>
  /\ IF FalsyId(Field(body, "assignee_id"))
     THEN /\ Reply("PostProjectAssignee", 400, id, body, {}, 0, 0,
                   "Assignee ID is required")
          /\ UNCHANGED pending
     ELSE IF ~ Exists("projects", id)
     THEN /\ Reply("PostProjectAssignee", 404, id, body, {}, 1, 0,
                   "Project not found")
          /\ UNCHANGED pending
     ELSE /\ Suspend(Cont("PostProjectAssignee", id, body, "assignee", 1))
          /\ Silent

\* POST /api/projects/:id/assignees, SELECT id FROM assignees
PostProjectAssignee_assignee(c) ==
  /\ UNCHANGED <<db, seq, now>>
  /\ IF ~ Exists("assignees", c.body.assignee_id)
     THEN /\ Reply("PostProjectAssignee", 400, c.id, c.body, {}, 2, 0,
                   "Assignee not found")
          /\ Resume(c)
     ELSE /\ Advance(c, "insert")
          /\ Silent

\* POST /api/projects/:id/assignees, INSERT INTO project_assignees
PostProjectAssignee_insert(c) == AssignInsert(c, c.id, c.body.assignee_id)

\* POST /api/assignees/:id/projects, up to SELECT id FROM assignees
PostAssigneeProject_assignee(id, body) ==
  /\ UNCHANGED <<db, seq, now>>
  /\ IF FalsyId(Field(body, "project_id"))
     THEN /\ Reply("PostAssigneeProject", 400, id, body, {}, 0, 0,
                   "Project ID is required")
          /\ UNCHANGED pending
     ELSE IF ~ Exists("assignees", id)
     THEN /\ Reply("PostAssigneeProject", 404, id, body, {}, 1, 0,
                   "Assignee not found")
          /\ UNCHANGED pending
     ELSE /\ Suspend(Cont("PostAssigneeProject", id, body, "project", 1))
          /\ Silent

\* the same without the test of projectExists.rows.length
PostAssigneeProject_project_unchecked(c) ==
  /\ UNCHANGED <<db, seq, now>>
  /\ Advance(c, "insert")
  /\ Silent

\* POST /api/assignees/:id/projects, SELECT id FROM projects
PostAssigneeProject_project(c) ==
  /\ UNCHANGED <<db, seq, now>>
  /\ IF ~ Exists("projects", c.body.project_id)
     THEN /\ Reply("PostAssigneeProject", 400, c.id, c.body, {}, 2, 0,
                   "Project not found")
          /\ Resume(c)
     ELSE /\ Advance(c, "insert")
          /\ Silent

\* POST /api/assignees/:id/projects, INSERT INTO project_assignees
PostAssigneeProject_insert(c) == AssignInsert(c, c.body.project_id, c.id)

\* DELETE FROM project_assignees WHERE project_id = $ AND assignee_id = $
Unassign(op, urlId, project_id, assignee_id) ==
  LET hit == {r \in db.project_assignees :
                r.project_id = project_id /\ r.assignee_id = assignee_id}
  IN  /\ db' = DeleteRows(SchemaPM, db, "project_assignees",
                          {r.id : r \in hit})
      /\ IF hit = {}
         THEN Reply(op, 404, urlId, NoBody, {}, 1, 0, "Assignment not found")
         ELSE Reply(op, 200, urlId, NoBody, hit, 1, 0,
                    "Assignee removed from project successfully")
      /\ UNCHANGED <<seq, now, pending>>

\* DELETE /api/projects/:projectId/assignees/:assigneeId
DeleteProjectAssignee(projectId, assigneeId) ==
  Unassign("DeleteProjectAssignee", projectId, projectId, assigneeId)

\* DELETE /api/assignees/:assigneeId/projects/:projectId
DeleteAssigneeProject(assigneeId, projectId) ==
  Unassign("DeleteAssigneeProject", assigneeId, projectId, assigneeId)


(***************************************************************************)
(* The assign and unassign handlers as functions of the store: what a      *)
(* request answers and what it leaves in project_assignees when no other   *)
(* request runs between its statements.                                    *)
(***************************************************************************)
Has(d, t, id) == \E r \in d[t] : r.id = id

\* the INSERT of either assign handler and its catch block
assignInsert(d, s, p, a, clk) ==
  LET r == InsertAssignment(d, p, a, <<"Team Member">>, s, clk)
  IN  [status |-> IF r.code = "ok" THEN 201
                  ELSE IF r.code = "23505" THEN 409 ELSE 500,
       table |-> r.db.project_assignees]

\* POST /api/projects/:p/assignees {assignee_id: a}
assignViaProject(d, s, p, a, clk) ==
  IF FalsyId(a) THEN [status |-> 400, table |-> d.project_assignees]
  ELSE IF ~ Has(d, "projects", p)
  THEN [status |-> 404, table |-> d.project_assignees]
  ELSE IF ~ Has(d, "assignees", a)
  THEN [status |-> 400, table |-> d.project_assignees]
  ELSE assignInsert(d, s, p, a, clk)

\* POST /api/assignees/:a/projects {project_id: p}
assignViaAssignee(d, s, a, p, clk) ==
  IF FalsyId(p) THEN [status |-> 400, table |-> d.project_assignees]
  ELSE IF ~ Has(d, "assignees", a)
  THEN [status |-> 404, table |-> d.project_assignees]
  ELSE IF ~ Has(d, "projects", p)
  THEN [status |-> 400, table |-> d.project_assignees]
  ELSE assignInsert(d, s, p, a, clk)

\* DELETE FROM project_assignees WHERE project_id = p AND assignee_id = a
\* (projects router) or WHERE assignee_id = a AND project_id = p
unassign(d, p, a) ==
  LET hit == {r \in d.project_assignees :
                r.project_id = p /\ r.assignee_id = a}
  IN  [status |-> IF hit = {} THEN 404 ELSE 200,
       table |-> d.project_assignees \ hit]
(***************************************************************************)
(* Mod: the assignee controller                                            *)
(***************************************************************************)
\* getAssigneeById
getAssigneeById(id) ==
  LET rows == {r \in db.assignees : r.id = id}
  IN  /\ IF rows = {}
         THEN Reply("getAssigneeById", 404, id, NoBody, {}, 1, 0,
                    "Assignee not found")
         ELSE Reply("getAssigneeById", 200, id, NoBody, rows, 1, 0, Ok)
      /\ UNCHANGED <<db, seq, now, pending>>

\* createAssignee
createAssignee(body) ==
  LET name == Field(body, "name")
      email == Field(body, "email")
      role == FieldOr(body, "role", <<"member">>)
  IN  /\ UNCHANGED <<now, pending>>
      /\ IF Falsy(name) \/ Falsy(email)
         THEN /\ Reply("createAssignee", 400, NULLID, body, {}, 0, 0,
                       "Name and email are required")
              /\ UNCHANGED <<db, seq>>
         ELSE /\ seq.assignees < FirstVal("Mod").assignees + MaxAssignees
              /\ LET r == Insert(SchemaMod, db, "assignees",
                                 [name |-> name, email |-> email,
                                  role |-> role],
                                 seq.assignees, now)
                 IN  /\ db' = r.db
                     /\ NextVal("assignees")
                     /\ IF r.code = "ok"
                        THEN Reply("createAssignee", 201, NULLID, body,
                                   r.rows, 1, 0,
                                   "Assignee created successfully")
                        ELSE ReplyCaught("createAssignee", 500, NULLID, body, 1,
                                         "Database error", r.code, TRUE)

\* the parameter list of a statement: undefined goes as NULL
Params(body, fields) ==
  [c \in fields |->
     IF c \in IdFields THEN ParamId(Field(body, c)) ELSE Param(Field(body, c))]

\* the same with the defaults of the destructuring: const { f = dflt } = body
ParamsOr(body, fields, dflt) ==
  [c \in fields |->
     IF c \in DOMAIN dflt /\ c \notin DOMAIN body THEN dflt[c]
     ELSE Params(body, fields)[c]]

\* UPDATE t SET every column of fields, updated_at = CURRENT_TIMESTAMP
PutSets(body, fields, clk) == Params(body, fields) @@ [updated_at |-> clk]

\* the UPDATE and the response shared by the PUT handlers
Put(op, sch, t, id, body, fields, missing) ==
  LET r == Update(sch, db, t, id, PutSets(body, fields, now))
  IN  /\ db' = r.db
      /\ UNCHANGED <<seq, now, pending>>
      /\ IF r.code # "ok"
         THEN ReplyCaught(op, 500, id, body, 1, "Database error", r.code, TRUE)
         ELSE IF r.rows = {}
         THEN Reply(op, 404, id, body, {}, 1, 0, missing)
         ELSE Reply(op, 200, id, body, r.rows, 1, 0, "updated successfully")

\* updateAssignee
updateAssignee(id, body) ==
  Put("updateAssignee", SchemaMod, "assignees", id, body,
      {"name", "email", "role"}, "Assignee not found")

\* the DELETE and the response shared by the one-statement DELETE handlers
Remove(op, sch, t, id, missing) ==
  LET r == Delete(sch, db, t, id)
  IN  /\ db' = r.db
      /\ UNCHANGED <<seq, now, pending>>
      /\ IF r.rows = {}
         THEN Reply(op, 404, id, NoBody, {}, 1, 0, missing)
         ELSE Reply(op, 200, id, NoBody, {}, 1, 0, "deleted successfully")

\* deleteAssignee
deleteAssignee(id) ==
  Remove("deleteAssignee", SchemaMod, "assignees", id, "Assignee not found")

(***************************************************************************)
(* Mod: projectsRouter                                                     *)
(***************************************************************************)
\* The identifier client in the module of a handler.  index.js and the
\* assignee controller import it from db/index.js; the modules of
\* projectsRouter and tasksRouter import express only and declare no client.
clientInScope(router) == router \notin {"projectsRouter", "tasksRouter"}

\* await client.query(...) in a module without client: the ReferenceError is
\* thrown inside the try, before any statement reaches the store, and the
\* catch answers 500
ReferenceError(op, id, body) ==
  /\ Reply(op, 500, id, body, {}, 0, 0, "Database error")
  /\ UNCHANGED <<db, seq, now, pending>>

ProjectFieldsMod ==
  {"title", "description", "status", "priority", "owner_id", "start_date",
   "end_date"}

\* projectsRouter.post("/")
projectsRouter_post(body) ==
  LET title == Field(body, "title")
      given == ParamsOr(body, ProjectFieldsMod,
                        [status |-> <<"active">>, priority |-> <<"medium">>])
  IN  /\ UNCHANGED <<now, pending>>
      /\ IF Falsy(title)
         THEN /\ Reply("projectsRouter_post", 400, NULLID, body, {}, 0, 0,
                       "Title is required")
              /\ UNCHANGED <<db, seq>>
         ELSE IF ~ clientInScope("projectsRouter")
         THEN /\ Reply("projectsRouter_post", 500, NULLID, body, {}, 0, 0,
                       "Database error")
              /\ UNCHANGED <<db, seq>>
         ELSE /\ seq.projects <= MaxProjects
              /\ LET r == Insert(SchemaMod, db, "projects", given,
                                 seq.projects, now)
                 IN  /\ db' = r.db
                     /\ NextVal("projects")
                     /\ IF r.code = "ok"
                        THEN Reply("projectsRouter_post", 201, NULLID, body,
                                   r.rows, 1, 0,
                                   "Project created successfully")
                        ELSE ReplyCaught("projectsRouter_post", 500, NULLID, body, 1,
                                         "Database error", r.code, TRUE)

\* p.*, a.name as owner_name, a.email as owner_email
\* ... LEFT JOIN assignees a ON p.owner_id = a.id
WithOwner(d, p) ==
  LET a == {x \in d.assignees : x.id = p.owner_id}
  IN  p @@ [owner_name |->
              IF a = {} THEN NULL ELSE (CHOOSE x \in a : TRUE).name,
            owner_email |->
              IF a = {} THEN NULL ELSE (CHOOSE x \in a : TRUE).email]

\* projectsRouter.get("/:id")
projectsRouter_get(id) ==
  LET rows == {WithOwner(db, p) : p \in {r \in db.projects : r.id = id}}
  IN  IF ~ clientInScope("projectsRouter")
      THEN ReferenceError("projectsRouter_get", id, NoBody)
      ELSE /\ IF rows = {}
              THEN Reply("projectsRouter_get", 404, id, NoBody, {}, 1, 0,
                         "Project not found")
              ELSE Reply("projectsRouter_get", 200, id, NoBody, rows, 1, 0, Ok)
           /\ UNCHANGED <<db, seq, now, pending>>

\* projectsRouter.put("/:id")
projectsRouter_put(id, body) ==
  IF ~ clientInScope("projectsRouter")
  THEN ReferenceError("projectsRouter_put", id, body)
  ELSE Put("projectsRouter_put", SchemaMod, "projects", id, body,
           ProjectFieldsMod, "Project not found")

\* projectsRouter.delete("/:id")
projectsRouter_delete(id) ==
  IF ~ clientInScope("projectsRouter")
  THEN ReferenceError("projectsRouter_delete", id, NoBody)
  ELSE Remove("projectsRouter_delete", SchemaMod, "projects", id,
              "Project not found")

(***************************************************************************)
(* Mod: tasksRouter and the additional routes                              *)
(***************************************************************************)
TaskFieldsMod ==
  {"title", "description", "status", "priority", "project_id", "assigned_to",
   "due_date", "completed"}

\* tasksRouter.post("/")
tasksRouter_post(body) ==
  LET title == Field(body, "title")
      given == ParamsOr(body, TaskFieldsMod,
                        [status |-> <<"pending">>, priority |-> <<"medium">>,
                         completed |-> FALSE_])
  IN  /\ UNCHANGED <<now, pending>>
      /\ IF Falsy(title)
         THEN /\ Reply("tasksRouter_post", 400, NULLID, body, {}, 0, 0,
                       "Title is required")
              /\ UNCHANGED <<db, seq>>
         ELSE IF ~ clientInScope("tasksRouter")
         THEN /\ Reply("tasksRouter_post", 500, NULLID, body, {}, 0, 0,
                       "Database error")
              /\ UNCHANGED <<db, seq>>
         ELSE /\ seq.tasks <= MaxTasks
              /\ LET r == Insert(SchemaMod, db, "tasks", given, seq.tasks,
                                 now)
                 IN  /\ db' = r.db
                     /\ NextVal("tasks")
                     /\ IF r.code = "ok"
                        THEN Reply("tasksRouter_post", 201, NULLID, body,
                                   r.rows, 1, 0, "Task created successfully")
                        ELSE ReplyCaught("tasksRouter_post", 500, NULLID, body, 1,
                                         "Database error", r.code, TRUE)

\* t.*, p.title as project_title, a.name as assigned_to_name
\* ... LEFT JOIN projects p ... LEFT JOIN assignees a ...
WithNames(d, t) ==
  LET p == {x \in d.projects : x.id = t.project_id}
      a == {x \in d.assignees : x.id = t.assigned_to}
  IN  t @@ [project_title |->
              IF p = {} THEN NULL ELSE (CHOOSE x \in p : TRUE).title,
            assigned_to_name |->
              IF a = {} THEN NULL ELSE (CHOOSE x \in a : TRUE).name]

\* tasksRouter.get("/:id")
tasksRouter_get(id) ==
  LET rows == {WithNames(db, t) : t \in {r \in db.tasks : r.id = id}}
  IN  IF ~ clientInScope("tasksRouter")
      THEN ReferenceError("tasksRouter_get", id, NoBody)
      ELSE /\ IF rows = {}
              THEN Reply("tasksRouter_get", 404, id, NoBody, {}, 1, 0,
                         "Task not found")
              ELSE Reply("tasksRouter_get", 200, id, NoBody, rows, 1, 0, Ok)
           /\ UNCHANGED <<db, seq, now, pending>>

\* tasksRouter.put("/:id")
tasksRouter_put(id, body) ==
  IF ~ clientInScope("tasksRouter")
  THEN ReferenceError("tasksRouter_put", id, body)
  ELSE Put("tasksRouter_put", SchemaMod, "tasks", id, body, TaskFieldsMod,
           "Task not found")

\* tasksRouter.delete("/:id")
tasksRouter_delete(id) ==
  IF ~ clientInScope("tasksRouter")
  THEN ReferenceError("tasksRouter_delete", id, NoBody)
  ELSE Remove("tasksRouter_delete", SchemaMod, "tasks", id, "Task not found")

\* app.get("/api/projects/:id/tasks"): no look at the projects table
app_get_project_tasks(id) ==
  /\ Reply("app_get_project_tasks", 200, id, NoBody,
           {[assigned_to_name |-> WithNames(db, t).assigned_to_name] @@ t :
              t \in {r \in db.tasks : r.project_id = id}},
           1, 0, Ok)
  /\ UNCHANGED <<db, seq, now, pending>>

(***************************************************************************)
(* List: the task list at the top of index.js                              *)
(***************************************************************************)
\* app.post("/api/tasks")
app_post_tasks(body) ==
  LET title == Field(body, "title")
      description == Field(body, "description")
  IN  /\ UNCHANGED <<now, pending>>
      /\ IF Falsy(title)
         THEN /\ Reply("app_post_tasks", 400, NULLID, body, {}, 0, 0,
                       "Title is required")
              /\ UNCHANGED <<db, seq>>
         ELSE /\ seq.tasks < FirstVal("List").tasks + MaxTasks
              /\ LET r == Insert(SchemaList, db, "tasks",
                                 [title |-> Param(title),
                                  description |-> Param(description)],
                                 seq.tasks, now)
                 IN  /\ db' = r.db
                     /\ NextVal("tasks")
                     /\ IF r.code = "ok"
                        THEN Reply("app_post_tasks", 201, NULLID, body,
                                   r.rows, 1, 0, "Task created successfully")
                        ELSE ReplyCaught("app_post_tasks", 500, NULLID, body, 1,
                                         "Database error", r.code, TRUE)

\* app.get("/api/tasks/:id")
app_get_task(id) ==
  LET rows == {r \in db.tasks : r.id = id}
  IN  /\ IF rows = {}
         THEN Reply("app_get_task", 404, id, NoBody, {}, 1, 0,
                    "Task not found")
         ELSE Reply("app_get_task", 200, id, NoBody, rows, 1, 0, Ok)
      /\ UNCHANGED <<db, seq, now, pending>>

\* app.put("/api/tasks/:id")
app_put_task(id, body) ==
  Put("app_put_task", SchemaList, "tasks", id, body,
      {"title", "description", "completed"}, "Task not found")

\* app.delete("/api/tasks/:id")
app_delete_task(id) ==
  Remove("app_delete_task", SchemaList, "tasks", id, "Task not found")
(***************************************************************************)
(* The list handlers.  A SELECT returns its rows in an order: with ORDER   *)
(* BY c DESC any order in which c does not increase, without ORDER BY any  *)
(* order.                                                                  *)
(***************************************************************************)
RECURSIVE Perms(_)
\* the sequences that hold every element of S once
Perms(S) ==
  IF S = {} THEN {<<>>}
  ELSE UNION {{<<x>> \o s : s \in Perms(S \ {x})} : x \in S}

\* the row of rows with id i
RowOf(rows, i) == CHOOSE r \in rows : r.id = i

\* SELECT ... (no ORDER BY): the orders the store may return rows in
Unordered(rows) == Perms({r.id : r \in rows})

\* SELECT ... ORDER BY c DESC
OrderByDesc(rows, c) ==
  {s \in Unordered(rows) :
     \A i, j \in 1 .. Len(s) :
        i < j => RowOf(rows, s[i])[c] >= RowOf(rows, s[j])[c]}

\* PM, GET /api/assignees
GetAssignees ==
  /\ \E order \in OrderByDesc(db.assignees, "created_at") :
        ReplyList("GetAssignees", NULLID, db.assignees, order)
  /\ UNCHANGED <<db, seq, now, pending>>

\* PM, GET /api/projects: p.*, COUNT(t.id) as task_count
GetProjects ==
  /\ \E order \in OrderByDesc(db.projects, "created_at") :
        ReplyList("GetProjects", NULLID,
                  {WithTaskCount(db, p) : p \in db.projects}, order)
  /\ UNCHANGED <<db, seq, now, pending>>

\* PM, GET /api/tasks: tasks JOIN projects LEFT JOIN assignees
GetTasks ==
  LET rows == {t \in db.tasks : Exists("projects", t.project_id)}
  IN  /\ \E order \in OrderByDesc(rows, "created_at") :
            ReplyList("GetTasks", NULLID, JoinTasks(db, rows), order)
      /\ UNCHANGED <<db, seq, now, pending>>

\* Mod, getAllAssignees
getAllAssignees ==
  /\ \E order \in OrderByDesc(db.assignees, "created_at") :
        ReplyList("getAllAssignees", NULLID, db.assignees, order)
  /\ UNCHANGED <<db, seq, now, pending>>

\* Mod, projectsRouter.get("/")
projectsRouter_list ==
  IF ~ clientInScope("projectsRouter")
  THEN ReferenceError("projectsRouter_list", NULLID, NoBody)
  ELSE /\ \E order \in OrderByDesc(db.projects, "created_at") :
             ReplyList("projectsRouter_list", NULLID,
                       {WithOwner(db, p) : p \in db.projects}, order)
       /\ UNCHANGED <<db, seq, now, pending>>

\* Mod, tasksRouter.get("/") with req.query.project_id = project_id
\* (UNDEFID: no filter)
tasksRouter_list(project_id) ==
  LET rows == IF FalsyId(project_id) THEN db.tasks
              ELSE {t \in db.tasks : t.project_id = project_id}
  IN  IF ~ clientInScope("tasksRouter")
      THEN ReferenceError("tasksRouter_list", project_id, NoBody)
      ELSE /\ \E order \in OrderByDesc(rows, "created_at") :
                 ReplyList("tasksRouter_list", project_id,
                           {WithNames(db, t) : t \in rows}, order)
           /\ UNCHANGED <<db, seq, now, pending>>

\* List, app.get("/api/tasks"): SELECT * FROM tasks
app_get_tasks ==
  /\ \E order \in Unordered(db.tasks) :
        ReplyList("app_get_tasks", NULLID, db.tasks, order)
  /\ UNCHANGED <<db, seq, now, pending>>

(***************************************************************************)
(* The relationship queries of an assignee                                 *)
(***************************************************************************)
\* PM, GET /api/assignees/:id/tasks, first statement: SELECT name FROM
\* assignees
GetAssigneeTasks_assignee(id) ==
  /\ UNCHANGED <<db, seq, now>>
  /\ IF ~ Exists("assignees", id)
     THEN /\ Reply("GetAssigneeTasks", 404, id, NoBody, {}, 1, 0,
                   "Assignee not found")
          /\ UNCHANGED pending
     ELSE /\ Suspend(Cont("GetAssigneeTasks", id, NoBody, "select", 0))
          /\ Silent

\* PM, GET /api/assignees/:id/tasks, second statement: SELECT t.*, p.name as
\* project_name FROM tasks t JOIN projects p ... WHERE t.assignee_id = $1
GetAssigneeTasks_select(c) ==
  /\ Resume(c)
  /\ Reply("GetAssigneeTasks", 200, c.id, NoBody,
           {t @@ [project_name |-> p.name] :
              <<t, p>> \in {x \in db.tasks \X db.projects :
                              /\ x[1].project_id = x[2].id
                              /\ x[1].assignee_id = c.id}},
           2, 0, Ok)
  /\ UNCHANGED <<db, seq, now>>

\* Mod, app.get("/api/assignees/:id/tasks"): no look at the assignees table
app_get_assignee_tasks(id) ==
  /\ Reply("app_get_assignee_tasks", 200, id, NoBody,
           {[project_title |-> WithNames(db, t).project_title] @@ t :
              t \in {r \in db.tasks : r.assigned_to = id}},
           1, 0, Ok)
  /\ UNCHANGED <<db, seq, now, pending>>


(***************************************************************************)
(* The process: start of the auth server, shutdown signals.                *)
(***************************************************************************)

\* part_000 line 328: the module ends its set-up with app.app.listen(...).
\* express() has no property app, so the call is a TypeError thrown at the
\* top level of the module: the process dies before it listens and before
\* the signal handlers of lines 341-353 are registered.
app_app_listen ==
  /\ prog = "Auth"
  /\ prog' = "crashed"
  /\ pending' = EmptyBag
  /\ Silent
  /\ UNCHANGED <<conn, db, seq, now>>

Signals == {"SIGINT", "SIGTERM"}

\* the program is running: it has not crashed and has not exited
Running == prog \in {"PM", "Mod", "List"}

\* the handlers of process.on(sig) that wait for client.end()
Ending == {c \in BagToSet(pending) : c.op \in Signals}

\* the request handlers that wait for the result of a statement
InFlight == {c \in BagToSet(pending) : c.op \notin Signals}

\* process.on(sig, async () => { ...; await client.end(); the first call of
\* client.end() starts the close of the connection, every call waits for
\* the connection's end.  Each signal is delivered once.
process_on(sig) ==
  /\ Running
  /\ Cardinality(Ending) < MaxSignals
  /\ Cont(sig, NULLID, NoBody, "end", 0) \notin Ending
  /\ conn' = IF conn = "open" THEN "ending" ELSE conn
  /\ pending' = pending (+) SetToBag({Cont(sig, NULLID, NoBody, "end", 0)})
  /\ Silent
  /\ UNCHANGED <<prog, db, seq, now>>

\* the connection has closed: the promises of client.end() resolve
connection_end ==
  /\ Running
  /\ conn = "ending"
  /\ conn' = "ended"
  /\ Silent
  /\ UNCHANGED <<prog, db, seq, now, pending>>

\* the message of the catch block of handler op
ErrorOf(op) ==
  IF op = "PostTask" THEN "Error creating task" ELSE "Database error"

\* a statement of a request meets a connection that is closing or closed:
\* client.query rejects, the catch of the handler answers 500
query_rejected(c) ==
  /\ Running
  /\ conn # "open"
  /\ c \in InFlight
  /\ Resume(c)
  /\ ReplyCaught(c.op, 500, c.id, c.body, c.n + 1, ErrorOf(c.op), "closed",
                 prog # "PM")
  /\ UNCHANGED <<prog, conn, db, seq, now>>

\* the handler of a signal with process.exit(0) not behind the await
process_exit_early(c) ==
  /\ Running
  /\ c \in Ending
  /\ prog' = "exited"
  /\ pending' = EmptyBag
  /\ resp' = [NoResp EXCEPT !.op = "process_exit", !.q = Cardinality(Ending),
                            !.n = Cardinality(InFlight)]
  /\ UNCHANGED <<conn, db, seq, now>>

\* ... await client.end(); process.exit(0) }): the handler c goes on when
\* the connection has ended; the handlers still waiting go with the process
process_exit(c) ==
  /\ Running
  /\ c \in Ending
  /\ conn = "ended"
  /\ prog' = "exited"
  /\ pending' = EmptyBag
  /\ resp' = [NoResp EXCEPT !.op = "process_exit", !.q = Cardinality(Ending),
                            !.n = Cardinality(InFlight)]
  /\ UNCHANGED <<conn, db, seq, now>>

(***************************************************************************)
(* The dashboards.  Promise.all([client.query(..), ...]) calls client.query *)
(* for all its statements before anything else runs, and the one Client of *)
(* the process sends its queued statements one at a time in the order of   *)
(* the calls: the statements of one dashboard request reach the store back *)
(* to back, so each handler is one step.                                   *)
(***************************************************************************)
\* project-manager-solution.md, insertSampleData: the rows of the four
\* INSERT statements
SamplePM ==
  [assignees |->
     <<[name |-> <<"John Doe">>, email |-> <<"john@example.com">>,
        role |-> <<"Frontend Developer">>],
       [name |-> <<"Jane Smith">>, email |-> <<"jane@example.com">>,
        role |-> <<"Backend Developer">>],
       [name |-> <<"Alice Johnson">>, email |-> <<"alice@example.com">>,
        role |-> <<"UI/UX Designer">>],
       [name |-> <<"Bob Wilson">>, email |-> <<"bob@example.com">>,
        role |-> <<"Project Manager">>]>>,
   projects |->
     <<[name |-> <<"Website Redesign">>,
        description |-> <<"Complete redesign of company website">>,
        status |-> <<"Active">>],
       [name |-> <<"Mobile App Development">>,
        description |-> <<"iOS and Android app development">>,
        status |-> <<"Planning">>],
       [name |-> <<"E-commerce Platform">>,
        description |-> <<"Build a complete e-commerce solution">>,
        status |-> <<"Active">>]>>,
   tasks |->
     <<[title |-> <<"Design Homepage">>,
        description |-> <<"Create wireframes and mockups">>,
        status |-> <<"In Progress">>, priority |-> <<"High">>,
        due_date |-> <<"2024-01-15">>, project_id |-> 1, assignee_id |-> 1],
       [title |-> <<"Implement User Auth">>,
        description |-> <<"Set up JWT authentication">>,
        status |-> <<"Todo">>, priority |-> <<"High">>,
        due_date |-> <<"2024-01-20">>, project_id |-> 1, assignee_id |-> 2],
       [title |-> <<"Mobile App Wireframes">>,
        description |-> <<"Create app wireframes">>,
        status |-> <<"Todo">>, priority |-> <<"Medium">>,
        due_date |-> <<"2024-01-25">>, project_id |-> 2, assignee_id |-> 3],
       [title |-> <<"Database Design">>,
        description |-> <<"Design database schema">>,
        status |-> <<"Done">>, priority |-> <<"High">>,
        due_date |-> <<"2024-01-10">>, project_id |-> 3, assignee_id |-> 2],
       [title |-> <<"API Development">>,
        description |-> <<"Build RESTful API">>,
        status |-> <<"In Progress">>, priority |-> <<"High">>,
        due_date |-> <<"2024-01-18">>, project_id |-> 1, assignee_id |-> 2]>>,
   project_assignees |->
     <<[project_id |-> 1, assignee_id |-> 1,
        role_in_project |-> <<"Lead Developer">>],
       [project_id |-> 1, assignee_id |-> 2,
        role_in_project |-> <<"Backend Developer">>],
       [project_id |-> 2, assignee_id |-> 3,
        role_in_project |-> <<"UI/UX Designer">>],
       [project_id |-> 3, assignee_id |-> 1,
        role_in_project |-> <<"Frontend Developer">>],
       [project_id |-> 3, assignee_id |-> 2,
        role_in_project |-> <<"Backend Developer">>]>>]

RECURSIVE InsertTables(_, _, _, _)
\* the INSERT statements of the project manager's insertSampleData, for the
\* tables ts in their order
InsertTables(d, ts, givens, clk) ==
  IF ts = <<>> THEN d
  ELSE InsertTables(InsertRows(SchemaPM, d, Head(ts), givens[Head(ts)], 1,
                               clk),
                    Tail(ts), givens, clk)

\* the project manager as it is after initializeDatabase and
\* insertSampleData on an empty store
StartPM ==
  /\ prog = "PM"
  /\ conn = "open"
  /\ db = InsertTables([t \in Tables |-> {}],
                       <<"assignees", "projects", "tasks",
                         "project_assignees">>, SamplePM, 0)
  /\ seq = [t \in Tables |-> Len(SamplePM[t]) + 1]
  /\ now = 0
  /\ pending = EmptyBag
  /\ resp = NoResp

\* COUNT(*) ... FROM t, COUNT(CASE WHEN c = v THEN 1 END)
CountAll(d, t) == Cardinality(d[t])
CountCase(d, t, c, v) == Cardinality({r \in d[t] : r[c] = v})

\* SELECT c, COUNT(*) as count FROM t GROUP BY c: one row for each value
GroupBy(d, t, c) ==
  {[key |-> v, count |-> CountCase(d, t, c, v)] : v \in {r[c] : r \in d[t]}}

\* the property name that acc[row.status] uses for the value v: a column
\* that is NULL goes under the name "null"
PropertyKey(v) == IF v = NULL THEN <<"n", "u", "l", "l">> ELSE v

\* rows.reduce((acc, row) => { acc[row.c] = parseInt(row.count); ... }, {}):
\* one property for each name; of the rows that share a name the last one
\* of the result stays, and GROUP BY fixes no order
reduce(groups) ==
  LET keys == {PropertyKey(g.key) : g \in groups}
  IN  {acc \in [keys -> {g.count : g \in groups}] :
         \A k \in keys :
           \E g \in groups : PropertyKey(g.key) = k /\ acc[k] = g.count}

\* project-manager-solution.md: app.get("/api/dashboard/stats")
dashboard_stats ==
  \E byStatus \in reduce(GroupBy(db, "tasks", "status")) :
    \E byPriority \in reduce(GroupBy(db, "tasks", "priority")) :
      /\ resp' = [NoResp EXCEPT
                    !.op = "dashboard_stats", !.status = 200,
                    !.success = TRUE, !.q = 5,
                    !.rows =
                      {[totalProjects |-> CountAll(db, "projects"),
                        activeProjects |->
                          CountCase(db, "projects", "status", <<"Active">>),
                        totalTasks |-> CountAll(db, "tasks"),
                        completedTasks |->
                          CountCase(db, "tasks", "status", <<"Done">>),
                        totalAssignees |-> CountAll(db, "assignees"),
                        tasksByStatus |-> byStatus,
                        tasksByPriority |-> byPriority]}]
      /\ UNCHANGED <<db, seq, now, pending>>

\* index.js: app.get("/api/dashboard")
app_get_dashboard ==
  /\ resp' = [NoResp EXCEPT
                !.op = "app_get_dashboard", !.status = 200,
                !.success = TRUE, !.q = 3,
                !.rows =
                  {[total_projects |-> CountAll(db, "projects"),
                    active_projects |->
                      CountCase(db, "projects", "status", <<"active">>),
                    total_tasks |-> CountAll(db, "tasks"),
                    completed_tasks |->
                      CountCase(db, "tasks", "completed", TRUE_),
                    total_assignees |-> CountAll(db, "assignees")]}]
  /\ UNCHANGED <<db, seq, now, pending>>

(***************************************************************************)
(* A later start of a server on the store it left behind.  The project     *)
(* manager and the task list create their tables IF NOT EXISTS and keep    *)
(* the rows; db/index.js of the modular server drops and creates them.     *)
(* Every start ends with insertSampleData, before the server listens.      *)
(***************************************************************************)
\* the number of times a sequence may hand out the ids of the sample rows
MaxSeeds == 2

RECURSIVE InsertValues(_, _, _, _, _, _, _)
\* INSERT INTO t (...) VALUES (...), (...) [ON CONFLICT ... DO NOTHING]:
\* the rows get the next ids of the sequence; the result is the code of the
\* first row that the store refuses.  With skip, a row that conflicts with
\* a unique index is left out and the statement goes on.
InsertValues(sch, d, t, givens, id, clk, skip) ==
  IF givens = <<>> THEN [code |-> "ok", db |-> d]
  ELSE LET r == Insert(sch, d, t, Head(givens), id, clk)
       IN  IF r.code = "ok" \/ (skip /\ r.code = "23505")
           THEN InsertValues(sch, r.db, t, Tail(givens), id + 1, clk, skip)
           ELSE [code |-> r.code, db |-> d]

RECURSIVE Statements(_, _, _, _, _)
\* the INSERT statements of one try block for the tables ts, each awaited
\* before the next: a statement that fails inserts none of its rows, uses
\* up the ids of the sequence, and throws past the statements after it
Statements(sch, st, ts, givens, clk) ==
  IF ts = <<>> \/ st.code # "ok" THEN st
  ELSE LET t == Head(ts)
           r == InsertValues(sch, st.db, t, givens[t], st.seq[t], clk,
                             t = "project_assignees")
       IN  Statements(sch,
                      [code |-> r.code,
                       db |-> IF r.code = "ok" THEN r.db ELSE st.db,
                       seq |-> [st.seq EXCEPT ![t] = @ + Len(givens[t])]],
                      Tail(ts), givens, clk)

\* the rows insertSampleData of program p inserts, and the schema they go to
SampleOf(p) ==
  IF p = "PM" THEN SamplePM
  ELSE IF p = "List"
  THEN [assignees |-> <<>>, projects |-> <<>>, tasks |-> SampleTasksList,
        project_assignees |-> <<>>]
  ELSE Sample

SchemaOf(p) ==
  IF p = "PM" THEN SchemaPM ELSE IF p = "List" THEN SchemaList ELSE SchemaMod

\* the test that insertSampleData of program p makes before it inserts:
\* COUNT(*) of assignees in the project manager, of tasks in the task list,
\* of each of the four tables in db/index.js
FoundEmpty(p, d) ==
  IF p = "PM" THEN d.assignees = {}
  ELSE IF p = "List" THEN d.tasks = {}
  ELSE \A t \in Tables : d[t] = {}

\* insertSampleData of program p on the tables d with the sequences s
insertSampleDataOn(p, d, s, clk) ==
  LET st == [code |-> "ok", db |-> d, seq |-> s]
  IN  IF ~ FoundEmpty(p, d) THEN st
      ELSE Statements(SchemaOf(p), st,
                      IF p = "List" THEN <<"tasks">>
                      ELSE <<"assignees", "projects", "tasks",
                             "project_assignees">>,
                      SampleOf(p), clk)

\* the number of rows of the store d
Rows(d) ==
  Cardinality(d.assignees) + Cardinality(d.projects) + Cardinality(d.tasks)
    + Cardinality(d.project_assignees)

\* The process of program prog is started again.  What was suspended is
\* gone with the old process; the new one connects, prepares its tables
\* and calls insertSampleData.
restart ==
  LET drops == prog = "Mod"
      d == IF drops THEN [t \in Tables |-> {}] ELSE db
      s == IF drops THEN [t \in Tables |-> 1] ELSE seq
      st == insertSampleDataOn(prog, d, s, now)
  IN  /\ Running
      /\ \A t \in Tables :
            st.seq[t] <= MaxSeeds * Len(SampleOf(prog)[t]) + MaxAssignments
      /\ db' = st.db
      /\ seq' = st.seq
      /\ conn' = "open"
      /\ pending' = EmptyBag
      /\ resp' = [NoResp EXCEPT !.op = "insertSampleData", !.n = Rows(d),
                                !.code = st.code]
      /\ UNCHANGED <<prog, now>>

(***************************************************************************)
(* The auth routes of part_000 and the middleware of middleware/auth.js.   *)
(* The users table is the one of the migration, reached through Prisma,    *)
(* whose pool serves the queries of different requests in any order: a     *)
(* handler is suspended at each await of a query.  None of these handlers  *)
(* has a try block.                                                        *)
(***************************************************************************)
A2 == <<"p", "w", "2">>
SecretKey == "SECRET_KEY"

\* A word of an Authorization header.  A token that jwt.sign made with the
\* key k for the user id, expiring at exp, is [id, exp, key |-> k]; any
\* other word s is Word(s).
Word(s) == [id |-> NULLID, exp |-> 0, key |-> s]
\* the accessToken of a user who has none
NullToken == Word("null")

\* what becomes of a request whose async handler throws: Express 5 passes
\* the rejection to its error handler, which answers 500; Express 4 drops
\* it, and Node then ends the process (unhandled rejection, Node 15 and
\* later) or only warns, and the request is never answered
Rejections == {"error handler", "process exit", "no response"}

Rejected(op, body, name, id) ==
  \E o \in Rejections :
    /\ prog' = IF o = "process exit" THEN "crashed" ELSE prog
    /\ pending' = IF o = "process exit" THEN EmptyBag ELSE pending
    /\ resp' = [NoResp EXCEPT !.op = op, !.body = body, !.msg = name,
                              !.id = id, !.code = o,
                              !.status = IF o = "error handler" THEN 500
                                         ELSE 0]

\* bcrypt.hash(password, salt)
bcrypt_hash(password, salt) == <<"$2b$10$", salt, password>>

\* bcrypt.compare(password, hash)
bcrypt_compare(password, hash) == hash[3] = password

Salts == {"salt1", "salt2"}

\* prisma.user.findFirst / findUnique({ where: { email } })
UsersByEmail(email) == {u \in db.users : u.email = email}

\* POST /api/auth/register up to the answer of prisma.user.findFirst
register_findFirst(body) ==
  /\ prog = "Auth"
  /\ IF UsersByEmail(body.email) # {}
     THEN /\ Reply("register", 400, NULLID, body, {}, 1, 0,
                   "User already exists")
          /\ UNCHANGED pending
     ELSE /\ Suspend(Cont("register", NULLID, body, "create", 0))
          /\ Silent
  /\ UNCHANGED <<prog, conn, db, seq, now>>

\* POST /api/auth/register from bcrypt.genSalt to the response: the INSERT
\* of prisma.user.create takes the next id also when users_email_key
\* refuses the row; the error of Prisma (P2002) is not caught
register_create(c) ==
  /\ prog = "Auth"
  /\ seq.users <= MaxAssignees + 1
  /\ seq' = [seq EXCEPT !.users = @ + 1]
  /\ \E salt \in Salts :
       LET user == [id |-> seq.users, email |-> c.body.email,
                    password |-> bcrypt_hash(c.body.password, salt),
                    accessToken |-> NullToken]
       IN  IF UsersByEmail(c.body.email) # {}
           THEN /\ \E o \in Rejections :
                     /\ prog' = IF o = "process exit" THEN "crashed" ELSE prog
                     /\ pending' = IF o = "process exit" THEN EmptyBag
                                   ELSE pending (-) SetToBag({c})
                     /\ resp' = [NoResp EXCEPT !.op = "register",
                                   !.body = c.body, !.msg = "P2002",
                                   !.code = o, !.q = 2,
                                   !.status = IF o = "error handler" THEN 500
                                              ELSE 0]
                /\ UNCHANGED db
           ELSE /\ db' = [db EXCEPT !.users = @ \cup {user}]
                /\ Resume(c)
                /\ Reply("register", 201, user.id, c.body, {user}, 2, 0,
                         "User created successfully")
                /\ UNCHANGED prog
  /\ UNCHANGED <<conn, now>>

\* POST /api/auth/login: after the validators the handler calls
\* validationResult(req), a name the module never imports (line 46 imports
\* the default export only): ReferenceError before any query
login(body) ==
  /\ prog = "Auth"
  /\ Rejected("login", body, "ReferenceError", NULLID)
  /\ UNCHANGED <<conn, db, seq, now>>

\* GET /api/auth/whoami: no middleware sets req.user (line 47), data is
\* undefined
whoami ==
  /\ prog = "Auth"
  /\ Reply("whoami", 200, UNDEFID, NoBody, {}, 0, 0, "Authenticated")
  /\ UNCHANGED <<prog, conn, db, seq, now, pending>>

\* GET /api/auth/logout: req.user is undefined, req.user.id is a TypeError
logout ==
  /\ prog = "Auth"
  /\ Rejected("logout", NoBody, "TypeError", UNDEFID)
  /\ UNCHANGED <<conn, db, seq, now>>

\* req.headers.authorization?.split(" ")[1], the header given as its words
TokenOf(authorization) ==
  IF Len(authorization) >= 2 THEN authorization[2] ELSE Word("undefined")

\* !token
NoToken(token) == token \in {Word("undefined"), Word("")}

\* jwt.verify(token, process.env.SECRET_KEY) does not throw
jwt_verify(token, clk) ==
  /\ token.key = SecretKey
  /\ clk < token.exp

\* prisma.user.findUnique({ where: { id: decodedToken.id, accessToken: token } })
UsersByToken(token) ==
  {u \in db.users : u.id = token.id /\ u.accessToken = token}

\* auth(req, res, next) for a request with the given Authorization header.
\* auth.js imports jsonwebtoken only: prisma in line 23 is an unbound name,
\* so a request whose token verifies ends in a ReferenceError.
auth(authorization) ==
  LET token == TokenOf(authorization)
      body == [authorization |-> authorization]
  IN  /\ prog = "Auth"
      /\ IF NoToken(token) \/ ~ jwt_verify(token, now)
         THEN /\ Reply("auth", 401, NULLID, body, {}, 0, 0, "Unauthorized")
              /\ UNCHANGED <<prog, pending>>
         ELSE Rejected("auth", body, "ReferenceError", token.id)
      /\ UNCHANGED <<conn, db, seq, now>>

(***************************************************************************)
(* The admin routes of index.js.  cleanupDatabase, initializeDatabase and  *)
(* insertSampleData are names the module neither imports nor declares: the *)
(* first call in the try block throws a ReferenceError and the catch       *)
(* answers 500 with error.message, before any statement is sent.           *)
(***************************************************************************)
\* POST /api/admin/cleanup
app_post_admin_cleanup ==
  /\ ReplyCaught("app_post_admin_cleanup", 500, NULLID, NoBody, 0,
                 "Database cleanup failed", "", TRUE)
  /\ UNCHANGED <<db, seq, now, pending>>

\* POST /api/admin/reset
app_post_admin_reset ==
  /\ ReplyCaught("app_post_admin_reset", 500, NULLID, NoBody, 0,
                 "Database reset failed", "", TRUE)
  /\ UNCHANGED <<db, seq, now, pending>>
(***************************************************************************)
(* Create and read back: every program, one client after another.          *)
(***************************************************************************)
QA == <<"QA">>
Done == <<"Done">>

AssigneeInputs == {[name |-> SpAB, email |-> MailASp, role |-> QA]}

ProjectInputsPM == {[name |-> SpAB, description |-> <<>>, status |-> Done]}

TaskInputsPM ==
  {[title |-> SpAB, description |-> <<>>, status |-> Done, project_id |-> 1,
    assignee_id |-> 1],
   [title |-> CD, project_id |-> 1, assignee_id |-> 1],
   [project_id |-> 1, assignee_id |-> 1],
   [title |-> <<>>, project_id |-> 1, assignee_id |-> 1]}

ProjectInputsMod == {[title |-> SpAB, description |-> <<>>, owner_id |-> 1]}

TaskInputsMod ==
  {[title |-> SpAB, description |-> <<>>, status |-> Done, project_id |-> 1,
    assigned_to |-> 1],
   [title |-> CD, project_id |-> 1, assignee_id |-> 1],
   [description |-> AB],
   [title |-> <<>>, project_id |-> 1]}

TaskInputsList ==
  {[title |-> SpAB, description |-> <<>>], [description |-> AB],
   [title |-> <<>>]}

InitCreate == \E p \in {"PM", "Mod", "List"} : Start(p)

NextCreate ==
  \/ Tick
  \/ PM /\ \E body \in AssigneeInputs : PostAssignee(body)
  \/ PM /\ \E id \in AssigneeIds : GetAssignee(id)
  \/ PM /\ \E body \in ProjectInputsPM : PostProject(body)
  \/ PM /\ \E id \in ProjectIds : GetProject(id)
  \/ PM /\ \E body \in TaskInputsPM : PostTask_project(body)
  \/ PM /\ \E c \in Waiting("PostTask", "assignee") : PostTask_assignee(c)
  \/ PM /\ \E c \in Waiting("PostTask", "insert") : PostTask_insert(c)
  \/ PM /\ \E id \in TaskIds : GetTask(id)
  \/ Mod /\ \E body \in AssigneeInputs : createAssignee(body)
  \/ Mod /\ \E id \in ModAssigneeIds : getAssigneeById(id)
  \/ Mod /\ \E body \in ProjectInputsMod : projectsRouter_post(body)
  \/ Mod /\ \E id \in ModProjectIds : projectsRouter_get(id)
  \/ Mod /\ \E body \in TaskInputsMod : tasksRouter_post(body)
  \/ Mod /\ \E id \in ModTaskIds : tasksRouter_get(id)
  \/ List /\ \E body \in TaskInputsList : app_post_tasks(body)
  \/ List /\ \E id \in ListTaskIds : app_get_task(id)

SpecCreate == InitCreate /\ [][NextCreate]_vars

(***************************************************************************)
(* References: PM clients that create, re-point and delete concurrently.   *)
(***************************************************************************)
OneAssignee == [name |-> AB, email |-> MailA]
OneProject == [name |-> AB]

TaskInputsRefs == {[title |-> AB, project_id |-> 1, assignee_id |-> 1]}

TaskPatchesRefs == {[project_id |-> 1, assignee_id |-> 1]}

InitRefs == Start("PM")

NextRefs ==
  \/ PM /\ PostAssignee(OneAssignee)
  \/ PM /\ \E id \in AssigneeIds : DeleteAssignee_count(id)
  \/ PM /\ \E c \in Waiting("DeleteAssignee", "delete") :
             DeleteAssignee_delete(c)
  \/ PM /\ PostProject(OneProject)
  \/ PM /\ \E id \in ProjectIds : DeleteProject_count(id)
  \/ PM /\ \E c \in Waiting("DeleteProject", "delete") :
             DeleteProject_delete(c)
  \/ PM /\ \E body \in TaskInputsRefs : PostTask_project(body)
  \/ PM /\ \E c \in Waiting("PostTask", "assignee") : PostTask_assignee(c)
  \/ PM /\ \E c \in Waiting("PostTask", "insert") : PostTask_insert(c)
  \/ PM /\ \E id \in TaskIds, body \in TaskPatchesRefs :
             PatchTask_project(id, body)
  \/ PM /\ \E c \in Waiting("PatchTask", "assignee") : PatchTask_assignee2(c)
  \/ PM /\ \E c \in Waiting("PatchTask", "update") : PatchTask_update2(c)
  \/ PM /\ \E id \in TaskIds : DeleteTask(id)

SpecRefs == InitRefs /\ [][NextRefs]_vars

(***************************************************************************)
(* Assignments and project deletion: PM clients that assign through both   *)
(* endpoints and delete projects concurrently; Mod clients that create and *)
(* delete projects and tasks.                                              *)
(***************************************************************************)
InitAssign == \E p \in {"PM", "Mod"} : Start(p)

NextAssign ==
  \/ PM /\ PostAssignee(OneAssignee)
  \/ PM /\ PostProject(OneProject)
  \/ PM /\ \E body \in TaskInputsRefs : PostTask_project(body)
  \/ PM /\ \E c \in Waiting("PostTask", "assignee") : PostTask_assignee(c)
  \/ PM /\ \E c \in Waiting("PostTask", "insert") : PostTask_insert(c)
  \/ PM /\ \E id \in ProjectIds :
             PostProjectAssignee_project(id, [assignee_id |-> 1])
  \/ PM /\ \E c \in Waiting("PostProjectAssignee", "assignee") :
             PostProjectAssignee_assignee(c)
  \/ PM /\ \E c \in Waiting("PostProjectAssignee", "insert") :
             PostProjectAssignee_insert(c)
  \/ PM /\ \E id \in AssigneeIds :
             PostAssigneeProject_assignee(id, [project_id |-> 1])
  \/ PM /\ \E c \in Waiting("PostAssigneeProject", "project") :
             PostAssigneeProject_project(c)
  \/ PM /\ \E c \in Waiting("PostAssigneeProject", "insert") :
             PostAssigneeProject_insert(c)
  \/ PM /\ \E id \in ProjectIds : DeleteProject_count(id)
  \/ PM /\ \E c \in Waiting("DeleteProject", "delete") :
             DeleteProject_delete(c)
  \/ PM /\ \E id \in ProjectIds : GetProjectTasks_project(id)
  \/ PM /\ \E c \in Waiting("GetProjectTasks", "select") :
             GetProjectTasks_select(c)
  \/ Mod /\ \E id \in ModAssigneeIds : deleteAssignee(id)
  \/ Mod /\ \E id \in ModProjectIds : projectsRouter_delete(id)
  \/ Mod /\ \E id \in ModProjectIds : app_get_project_tasks(id)

SpecAssign == InitAssign /\ [][NextAssign]_vars

(***************************************************************************)
(* Mod: clients of the modular server, one statement per request.          *)
(***************************************************************************)
AssigneeInputsMod == {[name |-> AB, email |-> MailA],
                      [name |-> CD, email |-> MailA]}

TaskInputsMod2 ==
  {[title |-> AB, description |-> CD, project_id |-> 1, assigned_to |-> 1],
   [title |-> AB]}

TaskPutsMod ==
  {[title |-> CD],
   [title |-> CD, description |-> CD, status |-> Done,
    priority |-> <<"medium">>, project_id |-> 1, assigned_to |-> 1,
    due_date |-> NULL, completed |-> FALSE_],
   [status |-> Done]}

InitMod == \E p \in {"Mod", "Auth"} : Start(p)

NextMod ==
  \/ app_app_listen
  \/ Mod /\ \E body \in AssigneeInputsMod : createAssignee(body)
  \/ Mod /\ \E id \in ModAssigneeIds : getAssigneeById(id)
  \/ Mod /\ \E id \in ModAssigneeIds : updateAssignee(id, [name |-> CD])
  \/ Mod /\ \E id \in ModAssigneeIds : deleteAssignee(id)
  \/ Mod /\ projectsRouter_post([title |-> AB])
  \/ Mod /\ \E id \in ModProjectIds : projectsRouter_get(id)
  \/ Mod /\ \E id \in ModProjectIds : projectsRouter_put(id, [title |-> CD])
  \/ Mod /\ \E id \in ModProjectIds : projectsRouter_delete(id)
  \/ Mod /\ \E body \in TaskInputsMod2 : tasksRouter_post(body)
  \/ Mod /\ \E id \in ModTaskIds : tasksRouter_get(id)
  \/ Mod /\ \E id \in ModTaskIds, body \in TaskPutsMod :
              tasksRouter_put(id, body)
  \/ Mod /\ \E id \in ModTaskIds : tasksRouter_delete(id)
  \/ Mod /\ \E id \in ModProjectIds : app_get_project_tasks(id)
  \/ Mod /\ getAllAssignees
  \/ Mod /\ projectsRouter_list
  \/ Mod /\ \E id \in {UNDEFID} \cup ModProjectIds : tasksRouter_list(id)

SpecMod == InitMod /\ [][NextMod]_vars

(***************************************************************************)
(* Updates: every program, PATCH and PUT requests for ids with and         *)
(* without a row.                                                          *)
(***************************************************************************)
AssigneePatches == {[name |-> AB], [name |-> AB, email |-> AB]}

ProjectPatches == {[name |-> AB], [name |-> A1, status |-> Done]}

TaskPatches ==
  {[title |-> AB], [title |-> A1, status |-> Done], [assignee_id |-> 1],
   [project_id |-> 1, assignee_id |-> 1]}

TaskPutsUpdate == {[title |-> AB], [description |-> CD]}

InitUpdate == \E p \in {"PM", "Mod", "List"} : Start(p)

NextUpdate ==
  \/ PM /\ PostAssignee(OneAssignee)
  \/ PM /\ \E id \in AssigneeIds, body \in AssigneePatches :
             PatchAssignee(id, body)
  \/ PM /\ PostProject(OneProject)
  \/ PM /\ \E id \in ProjectIds, body \in ProjectPatches :
             PatchProject(id, body)
  \/ PM /\ \E body \in TaskInputsRefs : PostTask_project(body)
  \/ PM /\ \E c \in Waiting("PostTask", "assignee") : PostTask_assignee(c)
  \/ PM /\ \E c \in Waiting("PostTask", "insert") : PostTask_insert(c)
  \/ PM /\ \E id \in TaskIds, body \in TaskPatches :
             PatchTask_reject(id, body)
  \/ PM /\ \E id \in TaskIds, body \in TaskPatches :
             PatchTask_project(id, body)
  \/ PM /\ \E id \in TaskIds, body \in TaskPatches :
             PatchTask_assignee(id, body)
  \/ PM /\ \E c \in Waiting("PatchTask", "assignee") : PatchTask_assignee2(c)
  \/ PM /\ \E id \in TaskIds, body \in TaskPatches :
             PatchTask_update(id, body)
  \/ PM /\ \E c \in Waiting("PatchTask", "update") : PatchTask_update2(c)
  \/ Mod /\ createAssignee(OneAssignee)
  \/ Mod /\ \E id \in ModAssigneeIds, body \in AssigneePatches :
              updateAssignee(id, body)
  \/ Mod /\ tasksRouter_post([title |-> AB])
  \/ Mod /\ \E id \in ModTaskIds, body \in TaskPutsUpdate :
              tasksRouter_put(id, body)
  \/ List /\ app_post_tasks([title |-> AB])
  \/ List /\ \E id \in ListTaskIds, body \in TaskPutsUpdate :
               app_put_task(id, body)

SpecUpdate == InitUpdate /\ [][NextUpdate]_vars

(***************************************************************************)
(* Reads: the list handlers and the relationship queries of every program, *)
(* with creates and deletes at different times.                            *)
(***************************************************************************)
InitRead == \E p \in {"PM", "Mod", "List"} : Start(p)

NextRead ==
  \/ Tick
  \/ PM /\ \E body \in {[name |-> AB, email |-> MailA],
                        [name |-> CD, email |-> MailB]} : PostAssignee(body)
  \/ PM /\ PostProject(OneProject)
  \/ PM /\ \E body \in TaskInputsRefs : PostTask_project(body)
  \/ PM /\ \E c \in Waiting("PostTask", "assignee") : PostTask_assignee(c)
  \/ PM /\ \E c \in Waiting("PostTask", "insert") : PostTask_insert(c)
  \/ PM /\ GetAssignees
  \/ PM /\ GetProjects
  \/ PM /\ GetTasks
  \/ PM /\ \E id \in ProjectIds : GetProjectTasks_project(id)
  \/ PM /\ \E c \in Waiting("GetProjectTasks", "select") :
             GetProjectTasks_select(c)
  \/ PM /\ \E id \in AssigneeIds : GetAssigneeTasks_assignee(id)
  \/ PM /\ \E c \in Waiting("GetAssigneeTasks", "select") :
             GetAssigneeTasks_select(c)
  \/ Mod /\ createAssignee(OneAssignee)
  \/ Mod /\ \E id \in ModAssigneeIds : deleteAssignee(id)
  \/ Mod /\ getAllAssignees
  \/ Mod /\ projectsRouter_list
  \/ Mod /\ \E id \in {UNDEFID} \cup ModProjectIds : tasksRouter_list(id)
  \/ Mod /\ \E id \in ModProjectIds : app_get_project_tasks(id)
  \/ Mod /\ \E id \in ModAssigneeIds : app_get_assignee_tasks(id)
  \/ List /\ app_post_tasks([title |-> AB])
  \/ List /\ \E id \in ListTaskIds : app_delete_task(id)
  \/ List /\ app_get_tasks

SpecRead == InitRead /\ [][NextRead]_vars

(***************************************************************************)
(* Dashboards: the project manager and the modular server as started with  *)
(* their sample rows, writes and dashboard requests in any order.          *)
(***************************************************************************)
StatusPatches == {[status |-> NULL], [status |-> <<"n", "u", "l", "l">>]}

\* the tasks that the requests name: two sample tasks to patch, the last
\* sample task and a task that does not exist to delete
PatchedTaskIds == {1, 2}
DeletedTaskIds == {Len(SamplePM.tasks), Len(SamplePM.tasks) + 1}

InitDash == StartPM \/ Start("Mod")

NextDash ==
  \/ Tick
  \/ PM /\ \E id \in PatchedTaskIds, body \in StatusPatches :
             PatchTask_update(id, body)
  \/ PM /\ \E id \in DeletedTaskIds : DeleteTask(id)
  \/ PM /\ dashboard_stats
  \/ Mod /\ createAssignee(OneAssignee)
  \/ Mod /\ \E id \in ModAssigneeIds : deleteAssignee(id)
  \/ Mod /\ app_get_dashboard

SpecDash == InitDash /\ [][NextDash]_vars

(***************************************************************************)
(* Shutdown: every program with requests in flight when SIGINT and SIGTERM *)
(* arrive.  The fair specification assumes that a connection that is being *)
(* closed does close and that a handler whose promise has resolved runs.   *)
(***************************************************************************)
InitShutdown == \E p \in {"PM", "Mod", "List"} : Start(p)

NextShutdown ==
  \/ Tick
  \/ PM /\ PostAssignee(OneAssignee)
  \/ PM /\ PostProject(OneProject)
  \/ PM /\ \E body \in TaskInputsRefs : PostTask_project(body)
  \/ PM /\ \E c \in Waiting("PostTask", "assignee") : PostTask_assignee(c)
  \/ PM /\ \E c \in Waiting("PostTask", "insert") : PostTask_insert(c)
  \/ Mod /\ createAssignee(OneAssignee)
  \/ List /\ app_post_tasks([title |-> AB])
  \/ \E sig \in Signals : process_on(sig)
  \/ connection_end
  \/ \E c \in InFlight : query_rejected(c)
  \/ \E c \in Ending : process_exit(c)

SpecShutdown ==
  /\ InitShutdown
  /\ [][NextShutdown]_vars
  /\ WF_vars(connection_end)
  /\ WF_vars(\E c \in Ending : process_exit(c))

(***************************************************************************)
(* PATCH of the project manager without fields to update, for rows that    *)
(* exist and rows that do not, at different times.                         *)
(***************************************************************************)
\* bodies without any field that a PATCH updates
Fieldless == {NoBody, [role_in_project |-> QA]}

InitPatch == Start("PM")

NextPatch ==
  \/ Tick
  \/ PM /\ PostAssignee(OneAssignee)
  \/ PM /\ \E id \in AssigneeIds, body \in Fieldless :
             PatchAssignee(id, body)
  \/ PM /\ PostProject(OneProject)
  \/ PM /\ \E id \in ProjectIds, body \in Fieldless :
             PatchProject(id, body)
  \/ PM /\ \E body \in TaskInputsRefs : PostTask_project(body)
  \/ PM /\ \E c \in Waiting("PostTask", "assignee") : PostTask_assignee(c)
  \/ PM /\ \E c \in Waiting("PostTask", "insert") : PostTask_insert(c)
  \/ PM /\ \E id \in TaskIds, body \in Fieldless :
             PatchTask_reject(id, body)

SpecPatch == InitPatch /\ [][NextPatch]_vars

(***************************************************************************)
(* Restarts: each program on its sample data, requests that empty its      *)
(* tables, and later starts of the process on what is left.                *)
(***************************************************************************)
SeedAssigneeIds == 1..Len(SamplePM.assignees)
SeedTaskIds == 1..Len(SampleTasksList)
SeedProjectIds == 1..Len(SamplePM.projects)

InitSeed == StartPM \/ Start("List") \/ Start("Mod")

NextSeed ==
  \/ restart
  \/ PM /\ \E id \in SeedAssigneeIds : DeleteAssignee_count(id)
  \/ PM /\ \E c \in Waiting("DeleteAssignee", "delete") :
             DeleteAssignee_delete(c)
  \/ PM /\ \E id \in SeedProjectIds : DeleteProject_count(id)
  \/ PM /\ \E c \in Waiting("DeleteProject", "delete") :
             DeleteProject_delete(c)
  \/ List /\ \E id \in SeedTaskIds : app_delete_task(id)
  \/ Mod /\ \E id \in SeedTaskIds : deleteAssignee(id)

SpecSeed == InitSeed /\ [][NextSeed]_vars

(***************************************************************************)
(* Auth: requests to the auth routes of part_000 and calls of the auth     *)
(* middleware, on a users table that starts empty.                         *)
(***************************************************************************)
MailC == <<"c", "@", "x", ".", "i", "o">>
Credentials ==
  {[email |-> MailA, password |-> A1], [email |-> MailA, password |-> A2],
   [email |-> MailC, password |-> A1]}
UserIds == 1..MaxAssignees
Tokens ==
  [id : UserIds, exp : {1, MaxClock + 1}, key : {SecretKey, "other key"}]
Headers ==
  {<<>>, <<Word("Bearer")>>}
    \cup {<<Word("Bearer"), t>> : t \in Tokens \cup {Word(""), Word("ey")}}
    \cup {<<Word("Basic"), t>> : t \in Tokens}

InitAuth ==
  /\ prog = "Auth"
  /\ conn = "open"
  /\ db = [users |-> {}]
  /\ seq = [users |-> 1]
  /\ now = 0
  /\ pending = EmptyBag
  /\ resp = NoResp

NextAuth ==
  \/ Tick
  \/ \E body \in Credentials : register_findFirst(body)
  \/ \E c \in Waiting("register", "create") : register_create(c)
  \/ \E body \in Credentials : login(body)
  \/ whoami
  \/ logout
  \/ \E h \in Headers : auth(h)

SpecAuth == InitAuth /\ [][NextAuth]_vars

(***************************************************************************)
(* Concurrent PATCHes of a sample task of the project manager: patches of  *)
(* different fields, with and without reference checks, interleaved at     *)
(* their awaits.                                                           *)
(***************************************************************************)
High == <<"High">>
PatchesOfOneTask ==
  {[title |-> CD], [status |-> Done, priority |-> High],
   [assignee_id |-> NULLID], [project_id |-> 2, description |-> QA]}

InitCommute == StartPM

NextCommute ==
  \/ PM /\ \E id \in TaskIds, body \in PatchesOfOneTask :
             PatchTask_project(id, body)
  \/ PM /\ \E id \in TaskIds, body \in PatchesOfOneTask :
             PatchTask_update(id, body)
  \/ PM /\ \E c \in Waiting("PatchTask", "update") : PatchTask_update2(c)

SpecCommute == InitCommute /\ [][NextCommute]_vars

(***************************************************************************)
(* The two assign and the two unassign endpoints of the project manager,   *)
(* on stores with and without the project and the assignee they name.      *)
(***************************************************************************)
InitEquiv == Start("PM")

NextEquiv ==
  \/ PM /\ PostAssignee(OneAssignee)
  \/ PM /\ PostProject(OneProject)
  \/ PM /\ \E p \in ProjectIds, a \in {1} :
             PostProjectAssignee_project(p, [assignee_id |-> a])
  \/ PM /\ \E c \in Waiting("PostProjectAssignee", "assignee") :
             PostProjectAssignee_assignee(c)
  \/ PM /\ \E c \in Waiting("PostProjectAssignee", "insert") :
             PostProjectAssignee_insert(c)
  \/ PM /\ \E a \in {1}, p \in ProjectIds :
             PostAssigneeProject_assignee(a, [project_id |-> p])
  \/ PM /\ \E c \in Waiting("PostAssigneeProject", "project") :
             PostAssigneeProject_project(c)
  \/ PM /\ \E c \in Waiting("PostAssigneeProject", "insert") :
             PostAssigneeProject_insert(c)
  \/ PM /\ \E p \in ProjectIds, a \in {1} :
             DeleteProjectAssignee(p, a)
  \/ PM /\ \E a \in {1}, p \in ProjectIds :
             DeleteAssigneeProject(a, p)

SpecEquiv == InitEquiv /\ [][NextEquiv]_vars

(***************************************************************************)
(* Failing requests: creates, patches and deletes of the project manager   *)
(* whose assignee or project is deleted under them, the modular server     *)
(* with duplicate creates, reads through a router and the admin routes.    *)
(***************************************************************************)
FramePatches == {[title |-> CD, assignee_id |-> 1]}

InitFrame == Start("PM") \/ Start("Mod")

NextFrame ==
  \/ PM /\ PostAssignee(OneAssignee)
  \/ PM /\ \E id \in {1} : DeleteAssignee_count(id)
  \/ PM /\ \E c \in Waiting("DeleteAssignee", "delete") :
             DeleteAssignee_delete(c)
  \/ PM /\ PostProject(OneProject)
  \/ PM /\ \E id \in ProjectIds : DeleteProject_count(id)
  \/ PM /\ \E c \in Waiting("DeleteProject", "delete") :
             DeleteProject_delete(c)
  \/ PM /\ \E id \in ProjectIds : GetProject(id)
  \/ PM /\ \E body \in TaskInputsRefs : PostTask_project(body)
  \/ PM /\ \E c \in Waiting("PostTask", "assignee") : PostTask_assignee(c)
  \/ PM /\ \E c \in Waiting("PostTask", "insert") : PostTask_insert(c)
  \/ PM /\ \E id \in TaskIds, body \in FramePatches :
             PatchTask_assignee(id, body)
  \/ PM /\ \E c \in Waiting("PatchTask", "update") : PatchTask_update2(c)
  \/ Mod /\ createAssignee(OneAssignee)
  \/ Mod /\ \E id \in ModTaskIds : tasksRouter_get(id)
  \/ Mod /\ app_post_admin_cleanup
  \/ Mod /\ app_post_admin_reset

SpecFrame == InitFrame /\ [][NextFrame]_vars
(***************************************************************************)
(* Properties.                                                             *)
(***************************************************************************)
CreateOps ==
  {"PostAssignee", "PostProject", "PostTask", "createAssignee",
   "projectsRouter_post", "tasksRouter_post", "app_post_tasks"}

TaskCreateOps == {"PostTask", "tasksRouter_post", "app_post_tasks"}

\* the table a create handler inserts into
TableOf(op) ==
  IF op \in {"PostAssignee", "createAssignee"} THEN "assignees"
  ELSE IF op \in {"PostProject", "projectsRouter_post"} THEN "projects"
  ELSE "tasks"

\* the get-by-id handler of the same router
GetOf(op) ==
  CASE op = "PostAssignee" -> "GetAssignee"
    [] op = "PostProject" -> "GetProject"
    [] op = "PostTask" -> "GetTask"
    [] op = "createAssignee" -> "getAssigneeById"
    [] op = "projectsRouter_post" -> "projectsRouter_get"
    [] op = "tasksRouter_post" -> "tasksRouter_get"
    [] OTHER -> "app_get_task"

\* the value a create stores for the supplied value v of field f: PM trims
\* names, emails and titles and stores an empty description or date as null
Stored(f, v) ==
  IF prog = "PM" /\ f \in {"name", "email", "title"} THEN trim(v)
  ELSE IF prog = "PM" /\ f \in {"description", "due_date"} /\ v = <<>>
  THEN NULL
  ELSE v

Created(r) == r.op \in CreateOps /\ r.status = 201

\* the record of a 201: one new row with the next id of the sequence and
\* the current time in its timestamps
Generated(r, row) ==
  /\ r.rows = {row}
  /\ row.id = seq[TableOf(r.op)]
  /\ ~ Exists(TableOf(r.op), row.id)
  /\ row \in db'[TableOf(r.op)]
  /\ row.created_at = now
  /\ row.updated_at = now

\* g is row, possibly with joined columns added
Extends(g, row) == \A f \in DOMAIN row : f \in DOMAIN g /\ g[f] = row[f]

ReadBack(row) ==
  (resp'.op = GetOf(resp.op) /\ resp'.id = row.id)
    => resp'.status = 200 /\ \E g \in resp'.rows : Extends(g, row)

NoTitle(body) == "title" \notin DOMAIN body \/ body.title = <<>>

\* C9: a Create-Task whose title is omitted or empty is answered 400 with
\* success false before any statement is issued, and the tables and the
\* id sequences are left as they were.
C9_TitleRequired ==
  [][(resp'.op \in TaskCreateOps /\ NoTitle(resp'.body)) =>
        /\ resp'.status = 400
        /\ ~ resp'.success
        /\ resp'.q = 0
        /\ db' = db
        /\ seq' = seq]_vars

\* a title-less Create-Task has been rejected
C9_Witness ==
  /\ resp.op \in TaskCreateOps
  /\ "title" \notin DOMAIN resp.body
  /\ resp.status = 400

TaskUpdateOps == {"PatchTask", "tasksRouter_put", "app_put_task"}

\* C2: a successful Update of a task leaves every field that the body does
\* not supply, other than updated_at, as it was, and changes no other row
\* of any table.
C2_OnlySuppliedFieldsChange ==
  [][(resp'.op \in TaskUpdateOps /\ resp'.status = 200) =>
        /\ \A old \in db.tasks :
              IF old.id = resp'.id
              THEN \E new \in db'.tasks :
                      /\ new.id = old.id
                      /\ \A f \in DOMAIN old \
                                    (DOMAIN resp'.body \cup {"updated_at"}) :
                            new[f] = old[f]
              ELSE old \in db'.tasks
        /\ \A t \in Tables \ {"tasks"} : db'[t] = db[t]]_vars

DeleteProjectOps == {"DeleteProject", "projectsRouter_delete"}

\* project id was created and has been deleted
Deleted(id) == id < seq.projects /\ ~ Exists("projects", id)

\* no task and no junction row refers to project id in the tables d
NothingOfProject(d, id) ==
  /\ \A t \in d.tasks : t.project_id # id
  /\ \A j \in d.project_assignees : j.project_id # id

\* C3, as amended: after a successful Delete of a project no task and no
\* junction row of that project remains, and a later list of that
\* project's tasks returns no task: Mod answers 200 with an empty list, PM
\* answers 404 Project not found to a list request that starts after the
\* delete and 200 with an empty list to one that had passed its project
\* check before the delete.
C3_DeleteProjectCascades ==
  [][/\ (resp'.op \in DeleteProjectOps /\ resp'.status = 200) =>
           NothingOfProject(db', resp'.id)
     /\ \A id \in ProjectIds \cup ModProjectIds :
           Deleted(id) =>
              /\ NothingOfProject(db, id)
              /\ (Mod /\ app_get_project_tasks(id)) =>
                    resp'.status = 200 /\ resp'.rows = {}
              /\ (PM /\ GetProjectTasks_project(id)) =>
                    resp'.status = 404 /\ resp'.rows = {}
              /\ \A c \in Waiting("GetProjectTasks", "select") :
                    (c.id = id /\ PM /\ GetProjectTasks_select(c)) =>
                       resp'.status = 200 /\ resp'.rows = {}]_vars

\* C3 as stated: the list of a deleted project's tasks is an empty list.
C3_ListOfDeletedProjectIsEmpty ==
  [][\A id \in ProjectIds \cup ModProjectIds :
        (/\ Deleted(id)
         /\ resp'.op \in {"GetProjectTasks", "app_get_project_tasks"}
         /\ resp'.id = id) =>
           resp'.status = 200 /\ resp'.rows = {}]_vars

\* PM has deleted a project that had a task
C3_Witness ==
  /\ resp.op = "DeleteProject"
  /\ resp.status = 200
  /\ resp.n = 1
  /\ db.tasks = {}

DeleteAssigneeOps == {"DeleteAssignee", "deleteAssignee"}

\* the column of tasks that refers to the assignee
AssigneeRef == IF prog = "PM" THEN "assignee_id" ELSE "assigned_to"

\* C4: a successful Delete of an assignee keeps every task, with the
\* assignee reference of the tasks that referred to the deleted assignee
\* set to null and nothing else changed, under every schema.
C4_DeleteAssigneeUnassigns ==
  [][(resp'.op \in DeleteAssigneeOps /\ resp'.status = 200) =>
        /\ Cardinality(db'.tasks) = Cardinality(db.tasks)
        /\ \A t \in db.tasks :
              IF t[AssigneeRef] = resp'.id
              THEN [t EXCEPT ![AssigneeRef] = NULLID] \in db'.tasks
              ELSE t \in db'.tasks]_vars

\* C5: every task's project reference and assignee reference is null or
\* the id of an existing row, in every reachable state of concurrently
\* served create, update and delete requests.
C5_ReferencesExist ==
  \A t \in db.tasks :
     /\ t.project_id = NULLID \/ Exists("projects", t.project_id)
     /\ t.assignee_id = NULLID \/ Exists("assignees", t.assignee_id)

\* a Create-Task passed both existence checks and its INSERT was refused
C5_Witness ==
  /\ resp.op = "PostTask"
  /\ resp.status = 400
  /\ resp.q = 3

\* C6: the junction table never holds two rows of one (project, assignee)
\* pair.
C6_OneRowPerPair ==
  \A r1, r2 \in db.project_assignees :
     (r1.project_id = r2.project_id /\ r1.assignee_id = r2.assignee_id)
       => r1 = r2

\* one endpoint has assigned a pair while the other endpoint's request for
\* the same pair waits to insert
C6_Witness ==
  /\ resp.op = "PostProjectAssignee"
  /\ resp.status = 201
  /\ \E c \in Waiting("PostAssigneeProject", "insert") :
        c.body.project_id = resp.id /\ c.id = resp.body.assignee_id

AssignOps == {"PostProjectAssignee", "PostAssigneeProject"}

\* the <<project, assignee>> pair of an assign request
PairOf(r) ==
  IF r.op = "PostProjectAssignee" THEN <<r.id, r.body.assignee_id>>
  ELSE <<r.body.project_id, r.id>>

Assigned(pair) ==
  \E j \in db.project_assignees :
     j.project_id = pair[1] /\ j.assignee_id = pair[2]

\* C7: an assign request whose INSERT finds the pair already assigned is
\* answered 409 and leaves the junction table as it was; one whose INSERT
\* finds the pair unassigned and both rows present is answered 201 and
\* adds the pair.
C7_DuplicateAssignConflicts ==
  [][(resp'.op \in AssignOps /\ resp'.q = 3) =>
        /\ Assigned(PairOf(resp')) =>
              /\ resp'.status = 409
              /\ db'.project_assignees = db.project_assignees
        /\ (/\ ~ Assigned(PairOf(resp'))
            /\ Exists("projects", PairOf(resp')[1])
            /\ Exists("assignees", PairOf(resp')[2])) =>
              /\ resp'.status = 201
              /\ \E j \in db'.project_assignees \ db.project_assignees :
                    <<j.project_id, j.assignee_id>> = PairOf(resp')]_vars

\* a second assign request of a pair has been refused
C7_Witness ==
  /\ resp.op \in AssignOps
  /\ resp.status = 409
  /\ Cardinality(db.project_assignees) = 1

\* C8: a Create-Assignee whose email is the email of an existing assignee
\* is answered 409 and adds no row, whichever request inserted first.
C8_DuplicateEmailConflicts ==
  [][(/\ resp'.op \in {"PostAssignee", "createAssignee"}
      /\ "email" \in DOMAIN resp'.body
      /\ \E a \in db.assignees : a.email = Stored("email", resp'.body.email))
        => resp'.status = 409 /\ db' = db]_vars

UpdateOps ==
  {"PatchAssignee", "PatchProject", "PatchTask", "updateAssignee",
   "projectsRouter_put", "tasksRouter_put", "app_put_task"}

\* the table an update handler writes
UpdateTable(op) ==
  IF op \in {"PatchAssignee", "updateAssignee"} THEN "assignees"
  ELSE IF op \in {"PatchProject", "projectsRouter_put"} THEN "projects"
  ELSE "tasks"

\* the value v supplied for field f passes the checks of handler op
ValidValue(op, f, v) ==
  IF op \notin {"PatchAssignee", "PatchProject", "PatchTask"} THEN TRUE
  ELSE IF f \in {"name", "title"} THEN IsText(v) /\ Len(trim(v)) >= 2
  ELSE IF f = "email" THEN IsText(v) /\ includes(v, "@")
  ELSE IF f = "project_id" THEN Exists("projects", v)
  ELSE IF f = "assignee_id" THEN v = NULLID \/ Exists("assignees", v)
  ELSE TRUE

\* an update has answered a request for an id that has no row
UpdateOfMissing(r) ==
  /\ r.op \in UpdateOps
  /\ ~ Exists(UpdateTable(r.op), r.id)
  /\ DOMAIN r.body # {}

\* the PUT handlers whose module has no client
RouterPuts == {"projectsRouter_put", "tasksRouter_put"}

DeleteOps ==
  {"DeleteAssignee", "DeleteProject", "DeleteTask", "deleteAssignee",
   "projectsRouter_delete", "tasksRouter_delete", "app_delete_task"}

GetOps ==
  {"GetAssignee", "GetProject", "GetTask", "getAssigneeById",
   "projectsRouter_get", "tasksRouter_get", "app_get_task"}

ListOps ==
  {"GetAssignees", "GetProjects", "GetTasks", "getAllAssignees",
   "projectsRouter_list", "tasksRouter_list", "app_get_tasks"}

\* the table a get, list or delete handler addresses
ResourceOf(op) ==
  IF op \in {"DeleteAssignee", "deleteAssignee", "GetAssignee",
             "getAssigneeById", "GetAssignees", "getAllAssignees"}
  THEN "assignees"
  ELSE IF op \in {"DeleteProject", "projectsRouter_delete", "GetProject",
                  "projectsRouter_get", "GetProjects", "projectsRouter_list"}
  THEN "projects"
  ELSE "tasks"

\* C11: a Delete of an id that has no row is answered 404 and leaves the
\* store unchanged; a Delete answered 200 has removed the row; an id
\* without a row gets 404 from Get-by-id too, and no List returns an id
\* that has no row.
C11_DeleteOfAbsentIsNotFound ==
  [][/\ (resp'.op \in DeleteOps \cup GetOps
           /\ ~ Exists(ResourceOf(resp'.op), resp'.id)) =>
              resp'.status = 404 /\ db' = db
     /\ (resp'.op \in DeleteOps /\ resp'.status = 200) =>
           \A r \in db'[ResourceOf(resp'.op)] : r.id # resp'.id
     /\ resp'.op \in ListOps =>
           /\ resp'.status = 200
           /\ \A i \in 1 .. Len(resp'.order) :
                 Exists(ResourceOf(resp'.op), resp'.order[i])]_vars

\* the tasks of d that depend on row id of the table of delete handler op
Dependents(d, op, id) ==
  IF op = "DeleteProject" THEN {t \in d.tasks : t.project_id = id}
  ELSE {t \in d.tasks : t.assignee_id = id}

\* C12: the number of tasks that a successful Delete of a project or of an
\* assignee reports is the number of tasks that its DELETE statement
\* removed (project) or unassigned (assignee), whatever other requests ran
\* between its count and its DELETE.
C12_ReportedCountIsAffected ==
  [][(resp'.op \in {"DeleteProject", "DeleteAssignee"}
        /\ resp'.status = 200) =>
           /\ resp'.n = Cardinality(Dependents(db, resp'.op, resp'.id))
           /\ Dependents(db', resp'.op, resp'.id) = {}]_vars

RelationOps ==
  {"GetProjectTasks", "GetAssigneeTasks", "app_get_project_tasks",
   "app_get_assignee_tasks"}

\* the table of the parent row of a relationship query
ParentOf(op) ==
  IF op \in {"GetProjectTasks", "app_get_project_tasks"} THEN "projects"
  ELSE "assignees"

\* C13: a relationship query looks its parent row up first: when the parent
\* has no row the answer, given after that first statement, is 404 and
\* carries no rows.
C13_ParentIsConfirmed ==
  [][(/\ resp'.op \in RelationOps
      /\ resp'.q = 1
      /\ ~ Exists(ParentOf(resp'.op), resp'.id)) =>
        resp'.status = 404 /\ resp'.rows = {}]_vars

\* the rows a list handler answering r selects from the tables d
Listed(d, r) ==
  IF r.op = "tasksRouter_list" /\ ~ FalsyId(r.id)
  THEN {t \in d.tasks : t.project_id = r.id}
  ELSE d[ResourceOf(r.op)]

\* C14: a List answered 200 returns every record of the resource (with a
\* project filter, the tasks of that project), each once, and of any two
\* records the one created later comes first.
C14_ListIsNewestFirst ==
  [][(resp'.op \in ListOps /\ resp'.status = 200) =>
        /\ resp'.order \in Perms({r.id : r \in Listed(db, resp')})
        /\ \A i, j \in 1 .. Len(resp'.order) :
              RowOf(db[ResourceOf(resp'.op)], resp'.order[i]).created_at
                > RowOf(db[ResourceOf(resp'.op)], resp'.order[j]).created_at
                 => i < j]_vars

(***************************************************************************)
(* C15: every request gets exactly one response and no error escapes a     *)
(* handler: whatever throws, the process is not brought down by it.  The   *)
(* auth server does not outlive its own set-up.                            *)
(***************************************************************************)
C15_NoErrorCrashesTheProcess == prog # "crashed"

\* the status the taxonomy gives to a write the store rejected with code
Taxonomy(code) == IF code = "23505" THEN {409} ELSE {400, 404}

\* C16: a write that the store rejects with a unique violation (23505) or a
\* foreign-key violation (23503) is answered with the status of the
\* taxonomy, without the text of the store's error, and leaves the store
\* as it was.
C16_StoreErrorsAreTranslated ==
  [][resp'.code \in {"23505", "23503"} =>
        /\ resp'.status \in Taxonomy(resp'.code)
        /\ ~ resp'.error
        /\ db' = db]_vars

\* the value of column f in the task created for body: the supplied value,
\* the default dflt when the body has none
GivenOr(body, f, dflt) == IF f \in DOMAIN body THEN body[f] ELSE dflt

\* body names a title and the ids of an existing project and assignee
WellFormedTask(body) ==
  /\ {"title", "project_id", "assignee_id"} \subseteq DOMAIN body
  /\ IsText(body.title) /\ Len(trim(body.title)) >= 2
  /\ Exists("projects", body.project_id)
  /\ Exists("assignees", body.assignee_id)

\* C17: a Create-Task with a title, an existing project and an existing
\* assignee is answered 201 with a task whose status and priority are the
\* supplied ones, "Todo" and "Medium" where none is supplied.
C17_TaskDefaults ==
  [][(resp'.op \in TaskCreateOps /\ WellFormedTask(resp'.body)) =>
        /\ resp'.status = 201
        /\ \E row \in resp'.rows :
              /\ {"status", "priority"} \subseteq DOMAIN row
              /\ row.status = GivenOr(resp'.body, "status", <<"Todo">>)
              /\ row.priority = GivenOr(resp'.body, "priority", <<"Medium">>)]_vars

RECURSIVE Sum(_)
\* the sum of the values of the properties of acc
Sum(acc) ==
  IF DOMAIN acc = {} THEN 0
  ELSE LET k == CHOOSE k \in DOMAIN acc : TRUE
       IN  acc[k] + Sum([j \in DOMAIN acc \ {k} |-> acc[j]])

\* C19: the counts of a dashboard response are those of one state of the
\* store, the one its statements ran in, and the per-status counts of
\* /api/dashboard/stats add up to the reported total of tasks.
C19_DashboardIsOneSnapshot ==
  [][(resp'.op \in {"dashboard_stats", "app_get_dashboard"}
        /\ resp'.status = 200) =>
        \A s \in resp'.rows :
          IF resp'.op = "app_get_dashboard"
          THEN /\ s.total_projects = CountAll(db, "projects")
               /\ s.total_tasks = CountAll(db, "tasks")
               /\ s.total_assignees = CountAll(db, "assignees")
               /\ s.completed_tasks <= s.total_tasks
               /\ s.active_projects <= s.total_projects
          ELSE /\ s.totalProjects = CountAll(db, "projects")
               /\ s.totalTasks = CountAll(db, "tasks")
               /\ s.totalAssignees = CountAll(db, "assignees")
               /\ s.completedTasks <= s.totalTasks
               /\ s.activeProjects <= s.totalProjects
               /\ Sum(s.tasksByPriority) = s.totalTasks
               /\ Sum(s.tasksByStatus) = s.totalTasks]_vars

\* C20: once SIGINT or SIGTERM is delivered the process exits, and it
\* exits only when the close of the connection has completed; with both
\* signals delivered and with requests in flight.
C20_ShutdownCompletes ==
  /\ [](prog = "exited" => conn = "ended")
  /\ [](Ending # {} => <>(prog = "exited"))

\* the process has exited after both signals, with a request in flight
C20_Witness ==
  /\ prog = "exited"
  /\ conn = "ended"
  /\ resp.op = "process_exit"
  /\ resp.q = 2
  /\ resp.n >= 1

PatchOps == {"PatchAssignee", "PatchProject", "PatchTask"}

\* the fields a PATCH of handler op updates
Updatable(op) ==
  IF op = "PatchAssignee" THEN {"name", "email", "role"}
  ELSE IF op = "PatchProject" THEN {"name", "description", "status"}
  ELSE TaskFields

\* C21: a PATCH whose body has none of the updatable fields of its resource
\* is answered 400 "No fields to update" before any statement: no row
\* changes, no updated_at is refreshed.
C21_NothingToUpdate ==
  [][(resp'.op \in PatchOps
        /\ DOMAIN resp'.body \cap Updatable(resp'.op) = {}) =>
        /\ resp'.status = 400
        /\ resp'.msg = "No fields to update"
        /\ resp'.q = 0
        /\ db' = db]_vars

\* a PATCH without fields for an existing task, later than its creation
C21_Witness ==
  /\ resp.op = "PatchTask"
  /\ resp.msg = "No fields to update"
  /\ \E t \in db.tasks : t.id = resp.id /\ t.updated_at < now

\* the ids of the projects of d that assignee id owns
Owned(d, id) == {p.id : p \in {q \in d.projects : q.owner_id = id}}

\* every reference of d is null or the id of a row of d (cascade schema)
NoDangling(d) ==
  /\ \A p \in d.projects :
        p.owner_id = NULLID \/ \E a \in d.assignees : a.id = p.owner_id
  /\ \A t \in d.tasks :
        /\ t.project_id = NULLID \/ \E p \in d.projects : p.id = t.project_id
        /\ t.assigned_to = NULLID
             \/ \E a \in d.assignees : a.id = t.assigned_to
  /\ \A j \in d.project_assignees :
        /\ \E p \in d.projects : p.id = j.project_id
        /\ \E a \in d.assignees : a.id = j.assignee_id

\* C22: under the cascade schema a successful Delete of an assignee removes
\* that assignee, the projects it owns, the tasks assigned to it, the tasks
\* of the removed projects whoever they are assigned to, and the junction
\* rows of the assignee and of the removed projects, and nothing else; no
\* row refers to a removed row afterwards.
C22_DeleteAssigneeCascades ==
  [][(resp'.op = "deleteAssignee" /\ resp'.status = 200) =>
        /\ db'.assignees = {a \in db.assignees : a.id # resp'.id}
        /\ db'.projects = {p \in db.projects : p.owner_id # resp'.id}
        /\ db'.tasks =
             {t \in db.tasks : /\ t.assigned_to # resp'.id
                               /\ t.project_id \notin Owned(db, resp'.id)}
        /\ db'.project_assignees =
             {j \in db.project_assignees :
                /\ j.assignee_id # resp'.id
                /\ j.project_id \notin Owned(db, resp'.id)}
        /\ NoDangling(db')]_vars

\* assignee 1 of the sample rows is deleted: its project 1 is gone and with
\* it task 1, which was assigned to assignee 2
C22_Witness ==
  /\ resp.op = "deleteAssignee"
  /\ resp.status = 200
  /\ resp.id = 1
  /\ ~ Exists("projects", 1)
  /\ ~ Exists("tasks", 1)
  /\ Exists("assignees", 2)

\* C23: insertSampleData inserts only into an empty store: a call that
\* finds any row in the store leaves every table as it was, so that no
\* sample row is there twice.
C23_SampleDataOnlyOnEmptyStore ==
  [][(resp'.op = "insertSampleData" /\ resp'.n > 0) => db' = db]_vars

\* C24: the auth middleware calls next() only for a request whose token
\* verifies and is the stored accessToken of the user with the token's id,
\* with req.user that user; every other request is answered 401
\* "Unauthorized" without next(); no request gets both.
C24_AuthPassesOnlyTheTokenHolder ==
  [][resp'.op = "auth" =>
       LET token == TokenOf(resp'.body.authorization)
           holder == IF jwt_verify(token, now) THEN UsersByToken(token)
                     ELSE {}
       IN  /\ resp'.msg = "next" => holder # {} /\ resp'.rows = holder
           /\ holder = {} =>
                resp'.status = 401 /\ resp'.msg = "Unauthorized"
           /\ ~ (resp'.msg = "next" /\ resp'.status # 0)]_vars

\* C25: at most one token of a user is accepted by the auth check, the one
\* its latest login stored; a token that verifies but is not the stored
\* token of its user (the user has logged out, has logged in again or has
\* never logged in) is rejected with 401.
C25_OneTokenPerUser ==
  /\ [](\A u \in db.users :
          Cardinality({t \in Tokens :
                         jwt_verify(t, now) /\ u \in UsersByToken(t)}) <= 1)
  /\ [][(/\ resp'.op = "auth"
         /\ jwt_verify(TokenOf(resp'.body.authorization), now)
         /\ \E u \in db.users :
              /\ u.id = TokenOf(resp'.body.authorization).id
              /\ u.accessToken # TokenOf(resp'.body.authorization))
          => resp'.status = 401]_vars

\* C26: no two users have the same email, and a register request that is
\* completed while a user with its email exists is answered 400 "User
\* already exists" and creates no row, whatever ran between its existence
\* check and its create.
C26_EmailsAreUnique ==
  /\ [](\A u, v \in db.users : u.email = v.email => u = v)
  /\ [][(resp'.op = "register" /\ UsersByEmail(resp'.body.email) # {}) =>
          /\ resp'.status = 400
          /\ resp'.msg = "User already exists"
          /\ db' = db]_vars

\* the rows of table t that a call of insertSampleData has added
Added(t) ==
  Cardinality(db'[t]) - (IF prog = "Mod" THEN 0 ELSE Cardinality(db[t]))

\* C27: a call of insertSampleData adds all of its sample sets or none of
\* them: it never returns with the rows of its earlier INSERTs stored and
\* those of a later INSERT missing.
C27_SampleDataAllOrNothing ==
  [][resp'.op = "insertSampleData" =>
       \/ \A t \in Tables : Added(t) = Len(SampleOf(prog)[t])
       \/ \A t \in Tables : Added(t) = 0]_vars

\* a call that finds all four tables empty adds every sample set
EmptiedStoreIsSeeded ==
  [][(resp'.op = "insertSampleData" /\ resp'.n = 0) =>
       \A t \in Tables : Added(t) = Len(SampleOf(prog)[t])]_vars

\* the tables after the UPDATE of a PATCH of task id with the given body
Patched(d, id, body) ==
  Update(SchemaPM, d, "tasks", id,
         PatchSets(body, TaskFields, {"title"}, now)).db

\* the value a PATCH with the given body stores in column c
Supplied(body, c) == IF c = "title" THEN trim(body[c]) ELSE body[c]

\* a body that the PATCH of a task accepts: a title of two characters, a
\* field to update, references to rows that exist
Acceptable(b) ==
  /\ TitleFault(b) = 0 /\ ~ NoFields(b, TaskFields)
  /\ NeedsProject(b) => Exists("projects", b.project_id)
  /\ NeedsAssignee(b) => Exists("assignees", b.assignee_id)

\* two acceptable bodies that share no field
Disjoint(b1, b2) ==
  DOMAIN b1 \cap DOMAIN b2 = {} /\ Acceptable(b1) /\ Acceptable(b2)

\* C28: two PATCHes of one task that supply disjoint fields commute: a
\* PATCH answered 200 writes the fields it supplies and updated_at and
\* leaves every other column and every other row as the statement found
\* them, so the UPDATEs of the two give the same tables in either order,
\* with the values of both; and each is answered 200 whatever the other
\* has done.
C28_DisjointPatchesCommute ==
  /\ [][(resp'.op = "PatchTask" /\ resp'.status = 200) =>
          /\ \A r \in db.tasks : r.id # resp'.id => r \in db'.tasks
          /\ \A r \in db.tasks : r.id = resp'.id =>
               \E s \in db'.tasks :
                 /\ db'.tasks = (db.tasks \ {r}) \cup {s}
                 /\ \A c \in DOMAIN r :
                      s[c] = IF c \in DOMAIN resp'.body
                             THEN Supplied(resp'.body, c)
                             ELSE IF c = "updated_at" THEN now ELSE r[c]
          /\ \A t \in Tables \ {"tasks"} : db'[t] = db[t]]_vars
  /\ [](\A id \in TaskIds, b1, b2 \in PatchesOfOneTask :
          (Exists("tasks", id) /\ Disjoint(b1, b2)) =>
            LET d12 == Patched(Patched(db, id, b1), id, b2)
            IN  /\ d12 = Patched(Patched(db, id, b2), id, b1)
                /\ \A s \in d12.tasks : s.id = id =>
                     \A b \in {b1, b2} :
                       \A c \in DOMAIN b : s[c] = Supplied(b, c))
  /\ [][(resp'.op = "PatchTask" /\ Exists("tasks", resp'.id)
           /\ Acceptable(resp'.body)) => resp'.status = 200]_vars

\* task 1 carries the title of one PATCH and the status of another, whose
\* UPDATE ran while a third PATCH was waiting for its own
C28_Witness ==
  /\ resp.op = "PatchTask" /\ resp.status = 200 /\ resp.id = 1
  /\ resp.body = [status |-> Done, priority |-> High]
  /\ \E t \in db.tasks : t.id = 1 /\ t.title = CD /\ t.status = Done
                           /\ t.project_id = 1
  /\ \E c \in Waiting("PatchTask", "update") : c.id = 1

\* what the two assign endpoints answer for project p and assignee a in
\* this state
ViaProject(p, a) ==
  assignViaProject(db, seq.project_assignees, p, a, now)

ViaAssignee(p, a) ==
  assignViaAssignee(db, seq.project_assignees, a, p, now)

ErrorStatuses == {400, 404, 409, 500}

\* the handlers of GET requests
ReadOps ==
  GetOps \cup ListOps
    \cup {"GetProjectTasks", "GetAssigneeTasks", "app_get_project_tasks",
          "app_get_assignee_tasks", "dashboard_stats", "app_get_dashboard",
          "whoami"}

\* C30: a request answered 400, 404, 409 or 500 leaves every table as it
\* was, also when the store refused a statement of it; so does every step
\* of a handler that has not answered yet, and every GET whatever its
\* status.
C30_FailuresLeaveTheStore ==
  [][(\/ resp'.status \in ErrorStatuses
      \/ resp'.op \in ReadOps
      \/ resp'.op = "none") => db' = db]_vars

\* a PATCH was answered 400 after the store refused its UPDATE: the
\* assignee it names was deleted after the handler had found it
C30_Witness ==
  /\ resp.op = "PatchTask" /\ resp.status = 400 /\ resp.code = "23503"
  /\ Exists("tasks", resp.id)
====
